---- MODULE Spec2Model ----
(***************************************************************************)
(* A model of two subsystems of wimlib:                                    *)
(*   - the NTFS capture: the reference-counted volume wrapper, the blob    *)
(*     locations that refer to it, the directory walk and the reading of   *)
(*     attribute data (src/src/ntfs-3g_capture.c);                         *)
(*   - the metadata resource reader and writer                             *)
(*     (src/src/metadata_resource.c).                                      *)
(* The module holds these specifications over one set of variables:        *)
(*   Spec         the single-threaded life of one volume wrapper           *)
(*   SpecAttr     one call of scan_ntfs_attr                               *)
(*   SpecThreads  several threads cloning and releasing blob locations     *)
(*   SpecMeta     writing and reading a metadata resource                  *)
(*   SpecPrefix   one call of read_ntfs_attribute_prefix                   *)
(*   SpecWalk     the recursive capture of a volume's directory tree       *)
(*   SpecCapture  a walk or a prefix read                                  *)
(*   SpecSort     blob descriptors given their sort keys and compared      *)
(* Each specification leaves the variables of the others unchanged.        *)
(***************************************************************************)
EXTENDS Integers, Sequences, FiniteSets, TLC

VARIABLES
    volume,     \* struct ntfs_volume_wrapper and the ntfs_volume behind it
    bdt,        \* position of ntfs_3g_build_dentry_tree
    locs,       \* live struct ntfs_location descriptors, by heap slot
    names,      \* live attr_name strings (heap addresses)
    heapErr,    \* a string was freed twice
    last,       \* the last operation and what it returned
    tpc,        \* per thread: position inside clone / free
    treg,       \* per thread: the refcnt value it loaded
    towned,     \* per thread: number of locations it holds
    tstat,      \* counters of completed clones and releases
    imd,        \* struct wim_image_metadata
    lte,        \* the metadata lookup table entry (imd->metadata_lte)
    res,        \* the stored metadata resource the entry refers to
    morig,      \* the image as it was before the writer ran
    mphase,     \* position of the metadata scenario
    mres,       \* outcome of the last metadata operation
    rd,         \* one call of read_ntfs_attribute_prefix
    wvol,       \* the NTFS volume being captured and the capture parameters
    wstack,     \* the directories ntfs_readdir is in the middle of
    wdent,      \* live struct wim_dentry objects, by address
    wino,       \* the inode table: live struct wim_inode, by i_ino
    wblobs,     \* params->unhashed_blobs
    whnd,       \* ntfs-3g handles opened and closed so far
    wlast,      \* the last call of the recursive tree builder
    wres,       \* position and result of the capture
    sk          \* blob descriptors being given their sort keys and compared

volVars == <<volume, bdt, locs, names, heapErr, last>>
thrVars == <<tpc, treg, towned, tstat>>
metaVars == <<imd, lte, res, morig, mphase, mres>>
walkVars == <<wvol, wstack, wdent, wino, wblobs, whnd, wlast, wres>>
capVars == <<rd, wvol, wstack, wdent, wino, wblobs, whnd, wlast, wres, sk>>
vars == <<volume, bdt, locs, names, heapErr, last,
          tpc, treg, towned, tstat, imd, lte, res, morig, mphase, mres,
          rd, wvol, wstack, wdent, wino, wblobs, whnd, wlast, wres, sk>>

(***************************************************************************)
(* Bounds of the model.                                                    *)
(***************************************************************************)
MaxLocs == 2        \* heap slots for ntfs_location descriptors

(***************************************************************************)
(* Program constants.                                                      *)
(***************************************************************************)
REPARSE_DATA_OFFSET == 8

AT_DATA == "AT_DATA"
AT_REPARSE_POINT == "AT_REPARSE_POINT"
\* A null pointer to a structure; IsNull tests for it.
NULL == [null |-> TRUE]
IsNull(p) == "null" \in DOMAIN p

WIMLIB_ERR_NOMEM == "WIMLIB_ERR_NOMEM"
WIMLIB_ERR_NTFS_3G == "WIMLIB_ERR_NTFS_3G"
WIMLIB_ERR_INVALID_REPARSE_DATA == "WIMLIB_ERR_INVALID_REPARSE_DATA"
WIMLIB_ERR_INVALID_METADATA_RESOURCE == "WIMLIB_ERR_INVALID_METADATA_RESOURCE"
WIMLIB_ERR_READ == "WIMLIB_ERR_READ"
WIMLIB_ERR_WRITE == "WIMLIB_ERR_WRITE"
WIMLIB_ERR_SUCCESS == "WIMLIB_ERR_SUCCESS"

(***************************************************************************)
(* The volume wrapper.                                                     *)
(*   vol     "null" before ntfs_mount, "mounted", "unmounted"              *)
(*   refcnt  the size_t reference count                                    *)
(*   umounts number of ntfs_umount calls made                              *)
(*   freed   the wrapper was passed to FREE                                *)
(*   uaf     the wrapper was used after FREE                               *)
(***************************************************************************)
NoVolume == [vol |-> "null", refcnt |-> 0, umounts |-> 0,
             freed |-> FALSE, uaf |-> FALSE]

\* volume->refcnt++
get_ntfs_volume(v) ==
    IF v.freed THEN [v EXCEPT !.uaf = TRUE]
    ELSE [v EXCEPT !.refcnt = v.refcnt + 1]

\* A release that unmounts one reference too early (refcnt-- == 1 misread).
put_ntfs_volume_early(v) ==
    IF v.freed THEN [v EXCEPT !.uaf = TRUE]
    ELSE IF v.refcnt - 1 <= 1
         THEN [v EXCEPT !.refcnt = v.refcnt - 1, !.vol = "unmounted",
                        !.umounts = v.umounts + 1, !.freed = (v.refcnt - 1 = 0)]
         ELSE [v EXCEPT !.refcnt = v.refcnt - 1]

\* if (--volume->refcnt == 0) { ntfs_umount(volume->vol); FREE(volume); }
put_ntfs_volume(v) ==
    IF v.freed THEN [v EXCEPT !.uaf = TRUE]
    ELSE IF v.refcnt - 1 = 0
         THEN [v EXCEPT !.refcnt = 0, !.vol = "unmounted",
                        !.umounts = v.umounts + 1, !.freed = TRUE]
         ELSE [v EXCEPT !.refcnt = v.refcnt - 1]

(***************************************************************************)
(* The heap of attr_name strings.  Address 0 is the null pointer.          *)
(***************************************************************************)
NameAddrs == 1 .. (MaxLocs + 1)

FreshName(ns) == CHOOSE a \in NameAddrs :
                    a \notin ns /\ \A b \in NameAddrs : b < a => b \in ns

\* FREE(p) on the string heap: st is [volume, names, heapErr]
FreeName(st, p) ==
    IF p = 0 THEN st
    ELSE IF p \in st.names THEN [st EXCEPT !.names = st.names \ {p}]
    ELSE [st EXCEPT !.heapErr = TRUE]

(***************************************************************************)
(* Blob locations.                                                         *)
(***************************************************************************)
\* put_ntfs_volume(loc->volume); FREE(loc->attr_name); FREE(loc);
free_ntfs_location(st, loc) ==
    FreeName([st EXCEPT !.volume = put_ntfs_volume(st.volume)], loc.attr_name)

\* memdup(loc); utf16le_dup(loc->attr_name); get_ntfs_volume(loc->volume).
\* fail names the allocation that returns NULL ("none": all succeed).
clone_ntfs_location(st, loc, fail) ==
    IF fail = "memdup" THEN [new |-> NULL, st |-> st]
    ELSE IF loc.attr_name # 0 /\ fail = "utf16le_dup"
    THEN [new |-> NULL, st |-> st]               \* err1: FREE(new)
    ELSE LET a == IF loc.attr_name # 0 THEN FreshName(st.names) ELSE 0
         IN [new |-> [loc EXCEPT !.attr_name = a],
             st |-> [st EXCEPT
                       !.names = IF a = 0 THEN st.names ELSE st.names \cup {a},
                       !.volume = get_ntfs_volume(st.volume)]]

\* free_blob_descriptor(blob): releases the location of a blob that has one.
free_blob_descriptor(st, blob) ==
    IF IsNull(blob) THEN st
    ELSE IF blob.blob_location = "BLOB_IN_NTFS_VOLUME" /\ ~IsNull(blob.ntfs_loc)
    THEN free_ntfs_location(st, blob.ntfs_loc)
    ELSE st

\* the result of scan_ntfs_attr: the return code, the heap and volume
\* afterwards, the location of the blob that was registered (NULL: none)
\* and the stream attached to the inode (NULL: none)
ScanRet(ret, st, loc, strm) ==
    [ret |-> ret, st |-> st, loc |-> loc, strm |-> strm]

\* the stream inode_add_stream attaches: blob is NULL for an empty stream
NewStream(type, name_nchars, blob) ==
    [stream_type |-> type, stream_name_nchars |-> name_nchars, blob |-> blob]

\* a size check that lets every reparse attribute through
reparse_data_too_short_unchecked(type, size) == FALSE

\* blob->size < REPARSE_DATA_OFFSET for a reparse point attribute
reparse_data_too_short(type, size) ==
    type = AT_REPARSE_POINT /\ size < REPARSE_DATA_OFFSET

\* scan_ntfs_attr with an error path that drops the half-built blob without
\* freeing it.
scan_ntfs_attr_leak(st, mft_no, type, data_size, name_nchars, fail) ==
    IF name_nchars # 0 /\ fail = "stream_name"
    THEN ScanRet(WIMLIB_ERR_NOMEM, st, NULL, NULL)
    ELSE IF data_size = 0
    THEN IF fail = "add_stream" THEN ScanRet(WIMLIB_ERR_NOMEM, st, NULL, NULL)
         ELSE ScanRet(WIMLIB_ERR_SUCCESS, st, NULL,
                      NewStream(type, name_nchars, NULL))
    ELSE IF fail \in {"blob", "ntfs_loc"}
    THEN ScanRet(WIMLIB_ERR_NOMEM, st, NULL, NULL)
    ELSE
    LET st1 == [st EXCEPT !.volume = get_ntfs_volume(st.volume)]
        a == IF name_nchars # 0 THEN FreshName(st1.names) ELSE 0
        st2 == [st1 EXCEPT !.names = IF a = 0 THEN @ ELSE @ \cup {a}]
        loc2 == [mft_no |-> mft_no, attr_type |-> type, attr_name |-> a,
                 attr_name_nchars |-> name_nchars]
    IN  IF name_nchars # 0 /\ fail = "attr_name"
        THEN ScanRet(WIMLIB_ERR_NOMEM, st1, NULL, NULL)
        ELSE IF fail = "sort_key" THEN ScanRet(WIMLIB_ERR_NTFS_3G, st2, NULL, NULL)
        ELSE IF type = AT_REPARSE_POINT /\ data_size < REPARSE_DATA_OFFSET
        THEN ScanRet(WIMLIB_ERR_INVALID_REPARSE_DATA, st2, NULL, NULL)
        ELSE IF type = AT_REPARSE_POINT /\ fail = "reparse_tag"
        THEN ScanRet(WIMLIB_ERR_NTFS_3G, st2, NULL, NULL)
        ELSE IF fail = "add_stream" THEN ScanRet(WIMLIB_ERR_NOMEM, st2, NULL, NULL)
        ELSE ScanRet(WIMLIB_ERR_SUCCESS, st2, loc2,
                     NewStream(type, name_nchars,
                         [size |-> IF type = AT_REPARSE_POINT
                                   THEN data_size - REPARSE_DATA_OFFSET
                                   ELSE data_size,
                          ntfs_loc |-> loc2]))

\* scan_ntfs_attr: save one attribute of an NTFS inode as a stream.  fail
\* names the allocation or library call that fails ("none": all succeed);
\* a failure point the call does not pass has no effect.  The result holds
\* the return code, the heap and volume afterwards, and the location of the
\* blob that was registered (NULL: no blob).
scan_ntfs_attr(st, mft_no, type, data_size, name_nchars, fail) ==
    IF name_nchars # 0 /\ fail = "stream_name"
    THEN ScanRet(WIMLIB_ERR_NOMEM, free_blob_descriptor(st, NULL), NULL, NULL)
    ELSE IF data_size = 0
    THEN \* empty stream: no blob
         IF fail = "add_stream"
         THEN ScanRet(WIMLIB_ERR_NOMEM, free_blob_descriptor(st, NULL), NULL, NULL)
         ELSE ScanRet(WIMLIB_ERR_SUCCESS, st, NULL,
                      NewStream(type, name_nchars, NULL))
    ELSE IF fail = "blob"
    THEN ScanRet(WIMLIB_ERR_NOMEM, free_blob_descriptor(st, NULL), NULL, NULL)
    ELSE IF fail = "ntfs_loc"
    THEN ScanRet(WIMLIB_ERR_NOMEM,
                 free_blob_descriptor(st, [blob_location |-> "BLOB_NONEXISTENT",
                                           ntfs_loc |-> NULL]),
                 NULL, NULL)
    ELSE
    LET st1 == [st EXCEPT !.volume = get_ntfs_volume(st.volume)]
        loc1 == [mft_no |-> mft_no, attr_type |-> type, attr_name |-> 0,
                 attr_name_nchars |-> 0]
        blob1 == [blob_location |-> "BLOB_IN_NTFS_VOLUME", ntfs_loc |-> loc1]
        a == IF name_nchars # 0 THEN FreshName(st1.names) ELSE 0
        st2 == [st1 EXCEPT !.names = IF a = 0 THEN @ ELSE @ \cup {a}]
        loc2 == [loc1 EXCEPT !.attr_name = a, !.attr_name_nchars = name_nchars]
        blob2 == [blob1 EXCEPT !.ntfs_loc = loc2]
    IN  IF name_nchars # 0 /\ fail = "attr_name"
        THEN ScanRet(WIMLIB_ERR_NOMEM, free_blob_descriptor(st1, blob1), NULL, NULL)
        ELSE IF fail = "sort_key"
        THEN ScanRet(WIMLIB_ERR_NTFS_3G, free_blob_descriptor(st2, blob2), NULL, NULL)
        ELSE IF reparse_data_too_short(type, data_size)
        THEN ScanRet(WIMLIB_ERR_INVALID_REPARSE_DATA,
                     free_blob_descriptor(st2, blob2), NULL, NULL)
        ELSE IF type = AT_REPARSE_POINT /\ fail = "reparse_tag"
        THEN ScanRet(WIMLIB_ERR_NTFS_3G, free_blob_descriptor(st2, blob2), NULL, NULL)
        ELSE IF fail = "add_stream"
        THEN ScanRet(WIMLIB_ERR_NOMEM, free_blob_descriptor(st2, blob2), NULL, NULL)
        ELSE ScanRet(WIMLIB_ERR_SUCCESS, st2, loc2,
                     NewStream(type, name_nchars,
                         [size |-> IF type = AT_REPARSE_POINT
                                   THEN data_size - REPARSE_DATA_OFFSET
                                   ELSE data_size,
                          ntfs_loc |-> loc2]))

(***************************************************************************)
(* The single-threaded life of one volume wrapper.                         *)
(***************************************************************************)
MftNos == {5, 64}
DataSizes == {0, 4, 8, 12}
NameLens == {0, 3}
ScanFails == {"none", "stream_name", "blob", "ntfs_loc", "attr_name",
              "sort_key", "reparse_tag", "add_stream"}
CloneFails == {"none", "memdup", "utf16le_dup"}

HeapState == [volume |-> volume, names |-> names, heapErr |-> heapErr]

FreeSlot == CHOOSE s \in 1 .. MaxLocs :
               s \notin DOMAIN locs /\ \A t \in 1 .. MaxLocs : t < s => t \in DOMAIN locs

HasFreeSlot == Cardinality(DOMAIN locs) < MaxLocs

SetHeap(st) ==
    /\ volume' = st.volume
    /\ names' = st.names
    /\ heapErr' = st.heapErr

\* ntfs_3g_build_dentry_tree up to the call of the recursive builder.
\* outcome: which of MALLOC(volume), ntfs_mount, MALLOC(path) fails.
BuildEnter(outcome) ==
    /\ bdt = "idle"
    /\ locs' = locs /\ names' = names /\ heapErr' = heapErr
    /\ CASE outcome = "nomem_volume" ->
              /\ volume' = volume
              /\ bdt' = "done"
              /\ last' = [op |-> "build", ret |-> WIMLIB_ERR_NOMEM]
         [] outcome = "mount_failed" ->
              /\ volume' = volume
              /\ bdt' = "done"
              /\ last' = [op |-> "build", ret |-> WIMLIB_ERR_NTFS_3G]
         [] outcome = "nomem_path" ->
              /\ volume' = put_ntfs_volume([volume EXCEPT !.vol = "mounted",
                                                         !.refcnt = 1])
              /\ bdt' = "done"
              /\ last' = [op |-> "build", ret |-> WIMLIB_ERR_NOMEM]
         [] outcome = "ok" ->
              /\ volume' = [volume EXCEPT !.vol = "mounted", !.refcnt = 1]
              /\ bdt' = "scanning"
              /\ last' = [op |-> "mount", ret |-> WIMLIB_ERR_SUCCESS]

\* One call of scan_ntfs_attr made by the recursive builder.
ScanAttr(mft_no, type, data_size, name_nchars, fail) ==
    /\ bdt = "scanning"
    /\ LET r == scan_ntfs_attr(HeapState, mft_no, type, data_size,
                               name_nchars, fail)
       IN /\ IsNull(r.loc) \/ HasFreeSlot
          /\ SetHeap(r.st)
          /\ locs' = IF IsNull(r.loc) THEN locs ELSE locs @@ (FreeSlot :> r.loc)
          /\ last' = [op |-> "scan", ret |-> r.ret]
    /\ bdt' = bdt

\* The recursive builder has returned: out_put_ntfs_volume.
BuildExit(ret) ==
    /\ bdt = "scanning"
    /\ bdt' = "done"
    /\ volume' = put_ntfs_volume(volume)
    /\ last' = [op |-> "build", ret |-> ret]
    /\ UNCHANGED <<locs, names, heapErr>>

\* A holder of location s clones it.
CloneLocation(s, fail) ==
    /\ s \in DOMAIN locs
    /\ LET r == clone_ntfs_location(HeapState, locs[s], fail)
       IN /\ IsNull(r.new) \/ HasFreeSlot
          /\ SetHeap(r.st)
          /\ locs' = IF IsNull(r.new) THEN locs ELSE locs @@ (FreeSlot :> r.new)
          /\ last' = [op |-> "clone",
                      ret |-> IF IsNull(r.new) THEN "NULL" ELSE "new"]
    /\ bdt' = bdt

\* The holder of location s releases it.
FreeLocation(s) ==
    /\ s \in DOMAIN locs
    /\ SetHeap(free_ntfs_location(HeapState, locs[s]))
    /\ locs' = [t \in DOMAIN locs \ {s} |-> locs[t]]
    /\ last' = [op |-> "free", ret |-> "void"]
    /\ bdt' = bdt

\* The variables of the other specifications, at rest.
ThreadsOff ==
    /\ tpc = <<>> /\ treg = <<>> /\ towned = <<>>
    /\ tstat = [clones |-> 0, releases |-> 0]

MetaOff ==
    /\ imd = NULL /\ lte = NULL /\ res = NULL /\ morig = NULL
    /\ mphase = "off" /\ mres = NULL

NoRead == [pc |-> "off"]
\* ntfs-3g handles: how many inodes, attributes and attribute search
\* contexts are open, and whether something was closed that was not open
NoHandles == [ni |-> 0, na |-> 0, actx |-> 0, closed_twice |-> FALSE]

Opened(h, what) ==
    IF what = "ni" THEN [h EXCEPT !.ni = @ + 1]
    ELSE IF what = "na" THEN [h EXCEPT !.na = @ + 1]
    ELSE [h EXCEPT !.actx = @ + 1]
Closed(h, what) ==
    IF what = "ni"
    THEN IF h.ni = 0 THEN [h EXCEPT !.closed_twice = TRUE] ELSE [h EXCEPT !.ni = @ - 1]
    ELSE IF what = "na"
    THEN IF h.na = 0 THEN [h EXCEPT !.closed_twice = TRUE] ELSE [h EXCEPT !.na = @ - 1]
    ELSE IF h.actx = 0 THEN [h EXCEPT !.closed_twice = TRUE]
    ELSE [h EXCEPT !.actx = @ - 1]

ReadOff == rd = NoRead

WalkOff ==
    /\ wvol = NULL /\ wstack = <<>> /\ wdent = <<>> /\ wino = <<>>
    /\ wblobs = <<>> /\ whnd = NoHandles /\ wlast = [op |-> "none"]
    /\ wres = [pc |-> "off"]

\* no descriptor is being sorted
SortOff == sk = [pc |-> "off"]

CaptureOff == ReadOff /\ WalkOff /\ SortOff

VolumeOff ==
    /\ volume = NoVolume /\ bdt = "off" /\ locs = <<>> /\ names = {}
    /\ heapErr = FALSE /\ last = [op |-> "none", ret |-> "none"]

Init ==
    /\ volume = NoVolume
    /\ bdt = "idle"
    /\ locs = <<>>
    /\ names = {}
    /\ heapErr = FALSE
    /\ last = [op |-> "none", ret |-> "none"]
    /\ ThreadsOff
    /\ MetaOff
    /\ CaptureOff

Next ==
    \/ \E o \in {"nomem_volume", "mount_failed", "nomem_path", "ok"} :
          BuildEnter(o) /\ UNCHANGED <<thrVars, metaVars, capVars>>
    \/ \E m \in MftNos, t \in {AT_DATA, AT_REPARSE_POINT}, d \in DataSizes,
          n \in NameLens, f \in ScanFails :
          ScanAttr(m, t, d, n, f) /\ UNCHANGED <<thrVars, metaVars, capVars>>
    \/ \E r \in {WIMLIB_ERR_SUCCESS, WIMLIB_ERR_NTFS_3G} :
          BuildExit(r) /\ UNCHANGED <<thrVars, metaVars, capVars>>
    \/ \E s \in 1 .. MaxLocs, f \in CloneFails :
          CloneLocation(s, f) /\ UNCHANGED <<thrVars, metaVars, capVars>>
    \/ \E s \in 1 .. MaxLocs :
          FreeLocation(s) /\ UNCHANGED <<thrVars, metaVars, capVars>>

Spec == Init /\ [][Next]_vars

\* The holders of a volume reference: the live locations, and the capture
\* driver while it runs.
Holders == Cardinality(DOMAIN locs) + (IF bdt = "scanning" THEN 1 ELSE 0)

\* C1: ntfs_umount has been called exactly once when the volume was mounted
\* and every holder has released, and not at all before that; the wrapper is
\* never used after it was freed.
C1_UnmountExactlyOnce ==
    /\ volume.umounts = (IF volume.vol # "null" /\ Holders = 0 THEN 1 ELSE 0)
    /\ (volume.vol = "mounted") <=> (Holders > 0)
    /\ (volume.umounts = 1) <=> (volume.vol # "null" /\ volume.refcnt = 0)
    /\ volume.freed <=> (volume.umounts = 1)
    /\ ~volume.uaf

\* The last holder was a blob location, released after the driver and after
\* a clone had been made, and the volume was unmounted by that release.
C1_Witness ==
    /\ last.op = "free"
    /\ bdt = "done"
    /\ locs = <<>>
    /\ volume.umounts = 1

\* C2: refcnt equals the number of live locations plus one while the
\* driver runs; every live location owns its own attr_name string, and no
\* string is leaked or freed twice.
C2_RefcntBalanced ==
    /\ volume.refcnt = Holders
    /\ ~heapErr
    /\ names = {locs[s].attr_name : s \in DOMAIN locs} \ {0}
    /\ \A s, t \in DOMAIN locs :
          (s # t /\ locs[s].attr_name # 0) => locs[s].attr_name # locs[t].attr_name

\* A named location and its clone are live while the driver runs, and the
\* scan of a short reparse attribute has just failed.
C2_Witness ==
    /\ bdt = "scanning"
    /\ last = [op |-> "scan", ret |-> WIMLIB_ERR_INVALID_REPARSE_DATA]
    /\ volume.refcnt = 3
    /\ \E s, t \in DOMAIN locs :
          /\ s # t
          /\ locs[s].mft_no = locs[t].mft_no
          /\ locs[s].attr_name_nchars > 0
          /\ locs[s].attr_name_nchars = locs[t].attr_name_nchars
          /\ locs[s].attr_name # locs[t].attr_name

(***************************************************************************)
(* One call of scan_ntfs_attr on a freshly mounted volume, with what it    *)
(* was given and what it attached.                                         *)
(***************************************************************************)
InitAttr ==
    /\ volume = [NoVolume EXCEPT !.vol = "mounted", !.refcnt = 1]
    /\ bdt = "scanning"
    /\ locs = <<>>
    /\ names = {}
    /\ heapErr = FALSE
    /\ last = [op |-> "mount", ret |-> WIMLIB_ERR_SUCCESS]
    /\ ThreadsOff
    /\ MetaOff
    /\ CaptureOff

ScanOneAttr(mft_no, type, data_size, name_nchars, fail) ==
    /\ last.op = "mount"
    /\ \E r \in {scan_ntfs_attr(HeapState, mft_no, type, data_size,
                                 name_nchars, fail)} :
          /\ SetHeap(r.st)
          /\ locs' = IF IsNull(r.loc) THEN locs ELSE locs @@ (FreeSlot :> r.loc)
          /\ last' = [op |-> "scan", ret |-> r.ret, fail |-> fail,
                      attr_type |-> type, data_size |-> data_size,
                      strm |-> r.strm]
    /\ bdt' = bdt

NextAttr ==
    \E m \in MftNos, t \in {AT_DATA, AT_REPARSE_POINT}, d \in DataSizes,
       n \in NameLens, f \in ScanFails :
       ScanOneAttr(m, t, d, n, f) /\ UNCHANGED <<thrVars, metaVars, capVars>>

SpecAttr == InitAttr /\ [][NextAttr]_vars

\* C14: after a call of scan_ntfs_attr: a non-empty reparse point attribute
\* of fewer than REPARSE_DATA_OFFSET bytes makes the call fail and attach
\* no stream, with WIMLIB_ERR_INVALID_REPARSE_DATA unless an allocation or
\* the sort key failed before the size was looked at; a stream attached
\* with a blob has blob.size = raw length - 8 for a reparse point and
\* blob.size = raw length for a data attribute.
C14_ReparseSize ==
    last.op = "scan" =>
        /\ (/\ last.attr_type = AT_REPARSE_POINT
            /\ last.data_size # 0
            /\ last.data_size < REPARSE_DATA_OFFSET) =>
              /\ last.ret # WIMLIB_ERR_SUCCESS
              /\ IsNull(last.strm)
              /\ last.fail \in {"none", "reparse_tag", "add_stream"} =>
                    last.ret = WIMLIB_ERR_INVALID_REPARSE_DATA
        /\ last.ret = WIMLIB_ERR_SUCCESS <=> ~IsNull(last.strm)
        /\ (~IsNull(last.strm) /\ ~IsNull(last.strm.blob)) =>
              /\ last.strm.blob.size >= 0
              /\ last.strm.blob.size =
                    IF last.attr_type = AT_REPARSE_POINT
                    THEN last.data_size - 8
                    ELSE last.data_size

C14_Witness ==
    /\ last.op = "scan"
    /\ last.attr_type = AT_REPARSE_POINT
    /\ last.data_size = 4
    /\ last.fail = "none"
    /\ last.ret = WIMLIB_ERR_INVALID_REPARSE_DATA
    /\ IsNull(last.strm)

(***************************************************************************)
(* Several threads clone and release blob locations of one volume.         *)
(* volume->refcnt is a plain size_t: refcnt++ and --refcnt are a load      *)
(* followed by a store, and the threads' loads and stores interleave.      *)
(***************************************************************************)
NThreads == 2       \* threads holding blob locations
MaxClones == 2      \* clones made in one run

Threads == 1 .. NThreads

InitThreads ==
    /\ volume = [NoVolume EXCEPT !.vol = "mounted", !.refcnt = NThreads]
    /\ bdt = "done"
    /\ locs = <<>>
    /\ names = {}
    /\ heapErr = FALSE
    /\ last = [op |-> "none", ret |-> "none"]
    /\ tpc = [t \in Threads |-> "idle"]
    /\ treg = [t \in Threads |-> 0]
    /\ towned = [t \in Threads |-> 1]
    /\ tstat = [clones |-> 0, releases |-> 0]
    /\ MetaOff
    /\ CaptureOff

\* clone_ntfs_location reaches get_ntfs_volume: the load of refcnt++
GetLoad(t) ==
    /\ tpc[t] = "idle"
    /\ towned[t] >= 1
    /\ tstat.clones < MaxClones
    /\ treg' = [treg EXCEPT ![t] = volume.refcnt]
    /\ tpc' = [tpc EXCEPT ![t] = "get_store"]
    /\ volume' = [volume EXCEPT !.uaf = @ \/ volume.freed]
    /\ UNCHANGED <<towned, tstat>>

\* the store of refcnt++; the clone is complete
GetStore(t) ==
    /\ tpc[t] = "get_store"
    /\ volume' = [volume EXCEPT !.refcnt = treg[t] + 1,
                                !.uaf = @ \/ volume.freed]
    /\ tpc' = [tpc EXCEPT ![t] = "idle"]
    /\ towned' = [towned EXCEPT ![t] = @ + 1]
    /\ tstat' = [tstat EXCEPT !.clones = @ + 1]
    /\ UNCHANGED treg

\* free_ntfs_location reaches put_ntfs_volume: the load of --refcnt
PutLoad(t) ==
    /\ tpc[t] = "idle"
    /\ towned[t] >= 1
    /\ treg' = [treg EXCEPT ![t] = volume.refcnt]
    /\ tpc' = [tpc EXCEPT ![t] = "put_store"]
    /\ volume' = [volume EXCEPT !.uaf = @ \/ volume.freed]
    /\ UNCHANGED <<towned, tstat>>

\* the store of --refcnt, the test against 0, ntfs_umount and FREE
PutStore(t) ==
    /\ tpc[t] = "put_store"
    /\ volume' = IF treg[t] - 1 = 0
                  THEN [volume EXCEPT !.refcnt = 0, !.vol = "unmounted",
                                      !.umounts = @ + 1, !.freed = TRUE,
                                      !.uaf = @ \/ volume.freed]
                  ELSE [volume EXCEPT !.refcnt = treg[t] - 1,
                                      !.uaf = @ \/ volume.freed]
    /\ tpc' = [tpc EXCEPT ![t] = "idle"]
    /\ towned' = [towned EXCEPT ![t] = @ - 1]
    /\ tstat' = [tstat EXCEPT !.releases = @ + 1]
    /\ UNCHANGED treg

NextThreads ==
    \/ \E t \in Threads : GetLoad(t) /\ UNCHANGED <<bdt, locs, names, heapErr, last, metaVars, capVars>>
    \/ \E t \in Threads : GetStore(t) /\ UNCHANGED <<bdt, locs, names, heapErr, last, metaVars, capVars>>
    \/ \E t \in Threads : PutLoad(t) /\ UNCHANGED <<bdt, locs, names, heapErr, last, metaVars, capVars>>
    \/ \E t \in Threads : PutStore(t) /\ UNCHANGED <<bdt, locs, names, heapErr, last, metaVars, capVars>>

SpecThreads == InitThreads /\ [][NextThreads]_vars

\* C3: whenever no thread is inside a clone or a release, refcnt equals the
\* initial count plus the clones minus the releases, the volume has been
\* unmounted exactly once if that count is zero and not at all otherwise,
\* and the freed wrapper has not been touched.
C3_NoLostUpdate ==
    (\A t \in Threads : tpc[t] = "idle") =>
        /\ volume.refcnt = NThreads + tstat.clones - tstat.releases
        /\ volume.umounts = (IF NThreads + tstat.clones - tstat.releases = 0
                              THEN 1 ELSE 0)
        /\ ~volume.uaf

(***************************************************************************)
(* Byte counts and offsets.  A u32 or u64 quantity n is kept as two limbs, *)
(* [h |-> n \div 2^16, l |-> n % 2^16], so that 2^32 and more can be       *)
(* represented and the truncation of a u64 to a u32 is exact.              *)
(***************************************************************************)
Limb == 2 ^ 16

Big(n) == [h |-> n \div Limb, l |-> n % Limb]

BAdd(a, b) == [h |-> a.h + b.h + ((a.l + b.l) \div Limb),
               l |-> (a.l + b.l) % Limb]

BLt(a, b) == a.h < b.h \/ (a.h = b.h /\ a.l < b.l)

BLe(a, b) == a = b \/ BLt(a, b)

\* (x + 7) & ~7
BAlign8(a) == LET t == BAdd(a, Big(7)) IN [h |-> t.h, l |-> (t.l \div 8) * 8]

\* the value of a u64 stored into a u32
U32(a) == [h |-> a.h % Limb, l |-> a.l]

RECURSIVE BSum(_)
BSum(seq) == IF seq = <<>> THEN Big(0) ELSE BAdd(Head(seq), BSum(Tail(seq)))

(***************************************************************************)
(* In-memory image.                                                        *)
(*   inode   [i_ino, i_attributes, i_security_id, i_nlink]; dentries that  *)
(*           share an inode carry the same record (same i_ino)             *)
(*   dentry  [file_name, short_name, d_inode, parent, subdir_offset,       *)
(*            children]; names are sequences of UTF-16 code units          *)
(*   security data [total_length, num_entries, sizes, descriptors]         *)
(***************************************************************************)
WIM_DENTRY_DISK_SIZE == 102

FILE_ATTRIBUTE_DIRECTORY == "FILE_ATTRIBUTE_DIRECTORY"
FILE_ATTRIBUTE_NORMAL == "FILE_ATTRIBUTE_NORMAL"

dentry_is_directory(d) == FILE_ATTRIBUTE_DIRECTORY \in d.d_inode.i_attributes
dentry_has_long_name(d) == Len(d.file_name) # 0
dentry_has_short_name(d) == Len(d.short_name) # 0

\* serialized length of a dentry: the fixed part, each non-empty name with
\* its terminating u16 0, padded to 8
dentry_out_total_length(d) ==
    LET fixed == WIM_DENTRY_DISK_SIZE
        fn == IF Len(d.file_name) # 0 THEN 2 * Len(d.file_name) + 2 ELSE 0
        sn == IF Len(d.short_name) # 0 THEN 2 * Len(d.short_name) + 2 ELSE 0
    IN ((fixed + fn + sn + 7) \div 8) * 8

RECURSIVE SumKids(_)
SumKids(kids) ==
    IF kids = <<>> THEN 0
    ELSE dentry_out_total_length(Head(kids)) + SumKids(Tail(kids))

\* Pre-order assignment of subdir_offset.  Every directory gets the cursor
\* as its subdir_offset and the cursor advances by the serialized length of
\* its children plus one 8-byte end-of-directory entry; a non-directory
\* gets subdir_offset 0.  Result: [d: the dentry with offsets, off: cursor].
RECURSIVE calculate_subdir_offsets(_, _), CalcKids(_, _)
calculate_subdir_offsets(d, off) ==
    IF dentry_is_directory(d) \/ d.children # <<>>
    THEN LET r == CalcKids(d.children,
                           BAdd(off, Big(SumKids(d.children) + 8)))
         IN [d |-> [d EXCEPT !.subdir_offset = off, !.children = r.kids],
             off |-> r.off]
    ELSE [d |-> [d EXCEPT !.subdir_offset = Big(0)], off |-> off]

CalcKids(kids, off) ==
    IF kids = <<>> THEN [kids |-> <<>>, off |-> off]
    ELSE LET h == calculate_subdir_offsets(Head(kids), off)
             t == CalcKids(Tail(kids), h.off)
         IN [kids |-> <<h.d>> \o t.kids, off |-> t.off]

\* sd->total_length recomputed in a u32: 8 * num_entries + 8, plus every
\* u64 size, each sum stored back into the u32; then rounded up to 8.
RECURSIVE AddSizesU32(_, _)
AddSizesU32(acc, sizes) ==
    IF sizes = <<>> THEN acc
    ELSE AddSizesU32(U32(BAdd(acc, Head(sizes))), Tail(sizes))

recalculate_security_data_length(sd) ==
    [sd EXCEPT !.total_length =
        U32(BAlign8(AddSizesU32(Big(8 * sd.num_entries + 8), sd.sizes)))]

(***************************************************************************)
(* The metadata resource.  A buffer is                                     *)
(*   [size  its length in bytes,                                           *)
(*    sd    the security block at offset 0:                                *)
(*          [total_length, num_entries, sizes, descriptors],               *)
(*    at    the dentries by the offset they start at]                      *)
(* and an on-disk dentry is [length, attributes, security_id,              *)
(* subdir_offset, hard_link_group_id, file_name, short_name]; an entry     *)
(* whose length is 0 ends a directory.                                     *)
(***************************************************************************)
EndOfDirectory == [length |-> Big(0)]

write_dentry(d) ==
    [length |-> Big(dentry_out_total_length(d)),
     attributes |-> d.d_inode.i_attributes,
     security_id |-> d.d_inode.i_security_id,
     subdir_offset |-> d.subdir_offset,
     hard_link_group_id |-> IF d.d_inode.i_nlink = 1 THEN 0
                            ELSE d.d_inode.i_ino,
     file_name |-> d.file_name,
     short_name |-> d.short_name]

\* the children of one directory, one after the other, from cursor p
RECURSIVE WriteKids(_, _)
WriteKids(kids, p) ==
    IF kids = <<>> THEN [ents |-> <<>>, p |-> p]
    ELSE LET t == WriteKids(Tail(kids),
                            BAdd(p, Big(dentry_out_total_length(Head(kids)))))
         IN [ents |-> << <<p, write_dentry(Head(kids))>> >> \o t.ents,
             p |-> t.p]

RECURSIVE write_dentry_tree_recursive(_, _), WriteKidsTrees(_, _)
write_dentry_tree_recursive(parent, p) ==
    IF parent.subdir_offset = Big(0) THEN [ents |-> <<>>, p |-> p]
    ELSE LET k == WriteKids(parent.children, p)
             r == WriteKidsTrees(parent.children, BAdd(k.p, Big(8)))
         IN [ents |-> k.ents \o << <<k.p, EndOfDirectory>> >> \o r.ents,
             p |-> r.p]

WriteKidsTrees(kids, p) ==
    IF kids = <<>> THEN [ents |-> <<>>, p |-> p]
    ELSE LET h == write_dentry_tree_recursive(Head(kids), p)
             t == WriteKidsTrees(Tail(kids), h.p)
         IN [ents |-> h.ents \o t.ents, p |-> t.p]

\* the root, an end-of-directory entry after it, then the rest of the tree
write_dentry_tree(root, p) ==
    LET e == BAdd(p, Big(dentry_out_total_length(root)))
        r == write_dentry_tree_recursive(root, BAdd(e, Big(8)))
    IN [ents |-> << <<p, write_dentry(root)>>, <<e, EndOfDirectory>> >>
                 \o r.ents,
        p |-> r.p]

\* header, sizes and descriptors, padded to 8: the block written and the
\* cursor after it
write_wim_security_data(sd) ==
    [sd |-> [total_length |-> sd.total_length,
             num_entries |-> sd.num_entries,
             sizes |-> sd.sizes,
             descriptors |-> sd.descriptors],
     p |-> BAlign8(BAdd(Big(8 * sd.num_entries + 8), BSum(sd.sizes)))]

\* an empty directory with an empty name, its own parent
new_filler_directory ==
    [file_name |-> <<>>, short_name |-> <<>>,
     d_inode |-> [i_ino |-> 0, i_attributes |-> {FILE_ATTRIBUTE_DIRECTORY},
                  i_security_id |-> -1, i_nlink |-> 1],
     parent |-> "self", subdir_offset |-> Big(0), children |-> <<>>]

\* the entries of a written tree as the content of a buffer of len bytes:
\* what was written at or past the end of the buffer is not part of it
BufferAt(ents, len) ==
    LET inside == {i \in 1 .. Len(ents) : BLt(ents[i][1], len)}
    IN [o \in {ents[i][1] : i \in inside} |->
            ents[CHOOSE i \in inside : ents[i][1] = o][2]]

PrepRet(ret, i, buf, len, p) ==
    [ret |-> ret, imd |-> i, buf |-> buf, len |-> len, p |-> p]

\* prepare_metadata_resource(wim, image, &buf, &len).  fail names the call
\* that fails ("none": all succeed).  Result: the return code, the image
\* metadata as the function leaves it, the buffer, its length, and the
\* write cursor p - buf after both blocks were written.
prepare_metadata_resource(i, fail) ==
    IF fail = "select_wim_image"
    THEN PrepRet("WIMLIB_ERR_INVALID_IMAGE", i, NULL, Big(0), Big(0))
    ELSE IF IsNull(i.root_dentry) /\ fail = "new_filler_directory"
    THEN PrepRet(WIMLIB_ERR_NOMEM, i, NULL, Big(0), Big(0))
    ELSE
    LET root0 == IF IsNull(i.root_dentry) THEN new_filler_directory
                 ELSE i.root_dentry
        sd == recalculate_security_data_length(i.security_data)
        c == calculate_subdir_offsets(root0,
                 BAdd(BAdd(BAlign8(sd.total_length),
                           Big(dentry_out_total_length(root0))),
                      Big(8)))
        len == c.off
        i1 == [i EXCEPT !.root_dentry = c.d, !.security_data = sd]
        s == write_wim_security_data(sd)
        t == write_dentry_tree(c.d, s.p)
    IN  IF fail = "MALLOC"
        THEN PrepRet(WIMLIB_ERR_NOMEM, i1, NULL, len, Big(0))
        ELSE PrepRet(WIMLIB_ERR_SUCCESS, i1,
                     [size |-> len, sd |-> s.sd, at |-> BufferAt(t.ents, len)],
                     len, t.p)

(***************************************************************************)
(* Reading a metadata resource.                                            *)
(***************************************************************************)
sha1_buffer(buf) == [sha1_of |-> buf]

\* Parse the security block at offset 0.  total_length 0 stands for an
\* empty block of 8 bytes; the block, its size table and its descriptors
\* must lie inside the resource; total_length is rounded up to 8.
read_wim_security_data(buf, len, fail) ==
    LET d == buf.sd
        n == IF d.total_length = Big(0) THEN 0 ELSE d.num_entries
        tl == IF d.total_length = Big(0) THEN Big(8) ELSE d.total_length
    IN  IF BLt(len, Big(8)) \/ BLt(len, tl)
           \/ BLt(tl, Big(8 * n + 8))
           \/ Len(d.sizes) < n
           \/ BLt(tl, BAdd(Big(8 * n + 8), BSum(SubSeq(d.sizes, 1, n))))
        THEN [ret |-> WIMLIB_ERR_INVALID_METADATA_RESOURCE, sd |-> NULL]
        ELSE IF fail = "read_wim_security_data"
        THEN [ret |-> WIMLIB_ERR_NOMEM, sd |-> NULL]
        ELSE [ret |-> WIMLIB_ERR_SUCCESS,
              sd |-> [total_length |-> BAlign8(tl), num_entries |-> n,
                      sizes |-> SubSeq(d.sizes, 1, n),
                      descriptors |-> SubSeq(d.descriptors, 1, n)]]

\* Read the dentry that starts at offset.  An entry of length 0 is returned
\* as such; any other entry must be at least WIM_DENTRY_DISK_SIZE long and
\* lie inside the resource.  Bytes that are not the start of an entry do
\* not parse.
read_dentry(buf, len, offset) ==
    IF BLt(len, BAdd(offset, Big(8))) \/ offset \notin DOMAIN buf.at
    THEN [ret |-> WIMLIB_ERR_INVALID_METADATA_RESOURCE, dentry |-> NULL]
    ELSE LET e == buf.at[offset]
         IN IF e.length = Big(0)
            THEN [ret |-> WIMLIB_ERR_SUCCESS, dentry |-> [length |-> Big(0)]]
            ELSE IF BLt(e.length, Big(WIM_DENTRY_DISK_SIZE))
                    \/ BLt(len, BAdd(offset, e.length))
            THEN [ret |-> WIMLIB_ERR_INVALID_METADATA_RESOURCE,
                  dentry |-> NULL]
            ELSE [ret |-> WIMLIB_ERR_SUCCESS,
                  dentry |-> [length |-> e.length,
                              file_name |-> e.file_name,
                              short_name |-> e.short_name,
                              d_inode |-> [i_ino |-> e.hard_link_group_id,
                                           i_attributes |-> e.attributes,
                                           i_security_id |-> e.security_id,
                                           i_nlink |-> 1],
                              parent |-> "null",
                              subdir_offset |-> e.subdir_offset,
                              children |-> <<>>]]

\* Read the children of dentry, and theirs, following subdir_offset; a
\* subdir_offset already being read higher up is a cycle.
RECURSIVE read_dentry_tree(_, _, _, _), ReadKids(_, _, _, _)
read_dentry_tree(buf, len, dentry, above) ==
    IF dentry.subdir_offset = Big(0)
    THEN [ret |-> WIMLIB_ERR_SUCCESS, d |-> dentry]
    ELSE IF dentry.subdir_offset \in above
    THEN [ret |-> WIMLIB_ERR_INVALID_METADATA_RESOURCE, d |-> dentry]
    ELSE LET k == ReadKids(buf, len, dentry.subdir_offset,
                           above \cup {dentry.subdir_offset})
         IN [ret |-> k.ret, d |-> [dentry EXCEPT !.children = k.kids]]

ReadKids(buf, len, cur, above) ==
    LET r == read_dentry(buf, len, cur)
    IN  IF r.ret # WIMLIB_ERR_SUCCESS THEN [ret |-> r.ret, kids |-> <<>>]
        ELSE IF r.dentry.length = Big(0)
        THEN [ret |-> WIMLIB_ERR_SUCCESS, kids |-> <<>>]
        ELSE LET c == read_dentry_tree(buf, len,
                          [r.dentry EXCEPT !.parent = "parent"], above)
             IN IF c.ret # WIMLIB_ERR_SUCCESS
                THEN [ret |-> c.ret, kids |-> <<c.d>>]
                ELSE LET t == ReadKids(buf, len,
                                  BAdd(cur, BAlign8(r.dentry.length)), above)
                     IN [ret |-> t.ret, kids |-> <<c.d>> \o t.kids]

\* the dentries of a tree in pre-order
RECURSIVE PreOrder(_), PreOrderKids(_)
PreOrder(d) == <<d>> \o PreOrderKids(d.children)

PreOrderKids(kids) ==
    IF kids = <<>> THEN <<>>
    ELSE PreOrder(Head(kids)) \o PreOrderKids(Tail(kids))

\* Hard-link groups of a tree just read, where d_inode.i_ino still holds the
\* hard_link_group_id.  The leader of the dentry at pre-order position k is
\* the first dentry with its group id (itself when the id is 0).
Leader(list, k) ==
    IF list[k].d_inode.i_ino = 0 THEN k
    ELSE CHOOSE j \in 1 .. k :
            /\ list[j].d_inode.i_ino = list[k].d_inode.i_ino
            /\ \A m \in 1 .. (j - 1) :
                  list[m].d_inode.i_ino # list[k].d_inode.i_ino

Leaders(list) == {Leader(list, k) : k \in 1 .. Len(list)}

FixedInode(list, k) ==
    LET ld == Leader(list, k)
    IN [i_ino |-> Cardinality({j \in Leaders(list) : j <= ld}),
        i_attributes |-> list[ld].d_inode.i_attributes,
        i_security_id |-> list[ld].d_inode.i_security_id,
        i_nlink |-> Cardinality({j \in 1 .. Len(list) : Leader(list, j) = ld})]

RECURSIVE FixTree(_, _, _), FixKids(_, _, _)
FixTree(d, list, k) ==
    LET r == FixKids(d.children, list, k + 1)
    IN [d |-> [d EXCEPT !.d_inode = FixedInode(list, k), !.children = r.kids],
        k |-> r.k]

FixKids(kids, list, k) ==
    IF kids = <<>> THEN [kids |-> <<>>, k |-> k]
    ELSE LET h == FixTree(Head(kids), list, k)
             t == FixKids(Tail(kids), list, h.k)
         IN [kids |-> <<h.d>> \o t.kids, k |-> t.k]

RECURSIVE CountDown(_)
CountDown(n) == IF n = 0 THEN <<>> ELSE <<n>> \o CountDown(n - 1)

\* dentry_tree_fix_inodes: dentries with the same nonzero group id become
\* one inode; they must agree on what they say about it and must not be
\* directories.  The inodes are put on the image's inode list, the last
\* one found first.
dentry_tree_fix_inodes(root, fail) ==
    LET list == PreOrder(root)
        ok == \A j, k \in 1 .. Len(list) :
                (j # k /\ list[j].d_inode.i_ino # 0
                       /\ list[j].d_inode.i_ino = list[k].d_inode.i_ino)
                => /\ list[j].d_inode.i_attributes = list[k].d_inode.i_attributes
                   /\ list[j].d_inode.i_security_id = list[k].d_inode.i_security_id
                   /\ ~dentry_is_directory(list[j])
    IN  IF fail = "dentry_tree_fix_inodes"
        THEN [ret |-> WIMLIB_ERR_NOMEM, root |-> root, inode_list |-> <<>>]
        ELSE IF ~ok
        THEN [ret |-> WIMLIB_ERR_INVALID_METADATA_RESOURCE, root |-> root,
              inode_list |-> <<>>]
        ELSE [ret |-> WIMLIB_ERR_SUCCESS, root |-> FixTree(root, list, 1).d,
              inode_list |-> CountDown(Cardinality(Leaders(list)))]

\* every security id an inode uses is -1 or an index of the table
verify_inode(inode, sd) ==
    IF inode.i_security_id < -1 \/ inode.i_security_id >= sd.num_entries
    THEN WIMLIB_ERR_INVALID_METADATA_RESOURCE
    ELSE WIMLIB_ERR_SUCCESS

verify_inodes(root, sd) ==
    LET list == PreOrder(root)
    IN IF \A k \in 1 .. Len(list) :
             verify_inode(list[k].d_inode, sd) = WIMLIB_ERR_SUCCESS
       THEN WIMLIB_ERR_SUCCESS
       ELSE WIMLIB_ERR_INVALID_METADATA_RESOURCE

\* what read_dentry allocates for a dentry besides the structure itself
RootParts(d) ==
    {"root->d_inode"}
    \cup (IF dentry_has_long_name(d) THEN {"root->file_name"} ELSE {})
    \cup (IF dentry_has_short_name(d) THEN {"root->short_name"} ELSE {})

\* free_dentry_tree(root): the root, its inode and names, and every dentry
\* and inode read below it
TreeObjects == {"root", "root->d_inode", "root->file_name",
                "root->short_name", "tree"}

ReadRet(ret, i, heap, log) ==
    [ret |-> ret, imd |-> i, heap |-> heap, log |-> log]

\* a length floor of one security block and one 8-byte entry
metadata_too_short_for_sentinel(l) == BLt(l.size, Big(8 + 8))

\* metadata_len < 8 + WIM_DENTRY_DISK_SIZE
metadata_too_short(l) == BLt(l.size, Big(8 + WIM_DENTRY_DISK_SIZE))

\* a hash check that does not look at dont_check_metadata_hash
metadata_hash_mismatch_always(l, buf) == sha1_buffer(buf) # l.hash

\* the hash is checked unless the entry says not to
metadata_hash_mismatch(l, buf) ==
    ~l.dont_check_metadata_hash /\ sha1_buffer(buf) # l.hash

\* a root that keeps the names it was read with
keep_root_names(d) == d

\* the root's names are freed and cleared
drop_root_names(d) == [d EXCEPT !.file_name = <<>>, !.short_name = <<>>]

\* an empty image that leaves the image metadata as it was
empty_image_untouched(i, sd) == i

\* the image metadata of an empty image
empty_image(i, sd) ==
    [i EXCEPT !.root_dentry = NULL, !.security_data = sd,
              !.unhashed_streams = <<>>]

\* read_metadata_resource(wim, imd), with l = imd->metadata_lte and rsrc the
\* stored resource.  fail names the call that fails ("none": none does).
\* Result: the return code, the image metadata afterwards, the objects
\* allocated by the call that are still allocated when it returns, and
\* the calls it made.
read_metadata_resource(i, l, rsrc, fail) ==
    IF metadata_too_short(l)
    THEN ReadRet(WIMLIB_ERR_INVALID_METADATA_RESOURCE, i, {}, <<>>)
    ELSE IF fail = "read_full_stream_into_alloc_buf"
    THEN ReadRet(WIMLIB_ERR_READ, i, {},
                 <<"read_full_stream_into_alloc_buf">>)
    ELSE
    LET buf == rsrc
        h1 == {"buf"}
        log1 == <<"read_full_stream_into_alloc_buf">>
               \o (IF l.dont_check_metadata_hash THEN <<>>
                   ELSE <<"sha1_buffer">>)
    IN
    IF metadata_hash_mismatch(l, buf)
    THEN \* out_free_buf
         ReadRet(WIMLIB_ERR_INVALID_METADATA_RESOURCE, i, h1 \ {"buf"}, log1)
    ELSE
    LET s == read_wim_security_data(buf, l.size, fail)
        log2 == log1 \o <<"read_wim_security_data">>
        h2 == h1 \cup {"security_data"}
    IN
    IF s.ret # WIMLIB_ERR_SUCCESS
    THEN ReadRet(s.ret, i, h1 \ {"buf"}, log2)
    ELSE IF fail = "MALLOC"
    THEN \* out_free_security_data
         ReadRet(WIMLIB_ERR_NOMEM, i, h2 \ {"security_data", "buf"}, log2)
    ELSE
    LET r == read_dentry(buf, l.size, s.sd.total_length)
        log3 == log2 \o <<"read_dentry">>
        h3 == h2 \cup {"root"}
    IN
    IF r.ret = WIMLIB_ERR_SUCCESS /\ r.dentry.length = Big(0)
    THEN \* empty image: FREE(root); out_success
         ReadRet(WIMLIB_ERR_SUCCESS, empty_image(i, s.sd),
                 (h3 \ {"root"}) \ {"buf"}, log3)
    ELSE IF r.ret # WIMLIB_ERR_SUCCESS
    THEN \* FREE(root); out_free_security_data
         ReadRet(r.ret, i, (h3 \ {"root"}) \ {"security_data", "buf"}, log3)
    ELSE
    LET named == dentry_has_long_name(r.dentry)
                 \/ dentry_has_short_name(r.dentry)
        h4 == IF named
              THEN (h3 \cup RootParts(r.dentry))
                   \ {"root->file_name", "root->short_name"}
              ELSE h3 \cup RootParts(r.dentry)
        root1 == IF named THEN drop_root_names(r.dentry) ELSE r.dentry
    IN
    IF ~dentry_is_directory(root1)
    THEN \* FREE(root); out_free_security_data
         ReadRet(WIMLIB_ERR_INVALID_METADATA_RESOURCE, i,
                 (h4 \ {"root"}) \ {"security_data", "buf"}, log3)
    ELSE
    LET root2 == [root1 EXCEPT !.parent = "self"]
        t == read_dentry_tree(buf, l.size, root2, {})
        log4 == log3 \o <<"read_dentry_tree">>
        h5 == h4 \cup {"tree"}
    IN
    IF t.ret # WIMLIB_ERR_SUCCESS
    THEN \* out_free_dentry_tree
         ReadRet(t.ret, i, (h5 \ TreeObjects) \ {"security_data", "buf"},
                 log4)
    ELSE
    LET f == dentry_tree_fix_inodes(t.d, fail)
        log5 == log4 \o <<"dentry_tree_fix_inodes">>
    IN
    IF f.ret # WIMLIB_ERR_SUCCESS
    THEN ReadRet(f.ret, i, (h5 \ TreeObjects) \ {"security_data", "buf"},
                 log5)
    ELSE
    LET v == verify_inodes(f.root, s.sd)
        log6 == log5 \o <<"verify_inode">>
    IN
    IF v # WIMLIB_ERR_SUCCESS
    THEN \* out_free_dentry_tree: the freed inodes leave the inode list
         ReadRet(v, i, (h5 \ TreeObjects) \ {"security_data", "buf"}, log6)
    ELSE \* out_success
         ReadRet(WIMLIB_ERR_SUCCESS,
                 [i EXCEPT !.root_dentry = f.root, !.security_data = s.sd,
                           !.inode_list = f.inode_list,
                           !.unhashed_streams = <<>>],
                 h5 \ {"buf"}, log6)

WriteRet(ret, i, l, out, len, p) ==
    [ret |-> ret, imd |-> i, lte |-> l, out |-> out, len |-> len, p |-> p]

\* what write_metadata_resource does with the result r of
\* prepare_metadata_resource: the resource writer stores the new resource
\* header and the SHA-1 of the buffer in the entry; out is the resource it
\* wrote (NULL: none)
write_prepared_resource(r, l, fail) ==
    IF r.ret # WIMLIB_ERR_SUCCESS
    THEN WriteRet(r.ret, r.imd, l, NULL, r.len, r.p)
    ELSE IF fail = "write_wim_resource_from_buffer"
    THEN WriteRet(WIMLIB_ERR_WRITE, r.imd,
                  [l EXCEPT !.dont_check_metadata_hash = TRUE],
                  NULL, r.len, r.p)
    ELSE WriteRet(WIMLIB_ERR_SUCCESS, r.imd,
                  [l EXCEPT !.out_reshdr = [uncompressed_size |-> r.len],
                            !.hash = sha1_buffer(r.buf),
                            !.dont_check_metadata_hash = TRUE],
                  r.buf, r.len, r.p)

\* write_metadata_resource(wim, image, flags), with l = imd->metadata_lte
write_metadata_resource(i, l, fail) ==
    write_prepared_resource(prepare_metadata_resource(i, fail), l, fail)

(***************************************************************************)
(* The images the writer is given: a root directory with up to MaxKids     *)
(* children, each a file, a link to the image's one multiply-linked inode, *)
(* or a directory holding one of these; and the image without a root.      *)
(***************************************************************************)
MaxKids == 2

ItemKinds == {"F", "H", "D0", "DF", "DH", "DD"}

MkInode(ino, attrs, sid, nlink) ==
    [i_ino |-> ino, i_attributes |-> attrs, i_security_id |-> sid,
     i_nlink |-> nlink]

MkDentry(name, short, inode, parent, kids) ==
    [file_name |-> name, short_name |-> short, d_inode |-> inode,
     parent |-> parent, subdir_offset |-> Big(0), children |-> kids]

\* the k-th child of the root; nH dentries of the image link to inode 99,
\* nsd descriptors are in the security table
Item(kind, k, nH, nsd) ==
    LET file(ino) == MkDentry(<<70, 48 + k>>, <<83, 48 + k>>,
                         MkInode(ino, {FILE_ATTRIBUTE_NORMAL},
                                 IF nsd > 0 THEN 0 ELSE -1, 1),
                         "parent", <<>>)
        link == MkDentry(<<72, 48 + k>>, <<>>,
                         MkInode(99, {FILE_ATTRIBUTE_NORMAL},
                                 IF nsd > 1 THEN 1 ELSE -1, nH),
                         "parent", <<>>)
        dir(ino, kids) == MkDentry(<<68, 48 + k>>, <<>>,
                              MkInode(ino, {FILE_ATTRIBUTE_DIRECTORY}, -1, 1),
                              "parent", kids)
    IN  CASE kind = "F" -> file(10 * k)
          [] kind = "H" -> link
          [] kind = "D0" -> dir(10 * k, <<>>)
          [] kind = "DF" -> dir(10 * k, <<file(10 * k + 1)>>)
          [] kind = "DH" -> dir(10 * k, <<link>>)
          [] kind = "DD" -> dir(10 * k, <<dir(10 * k + 1, <<>>)>>)

KindSeqs == UNION {[1 .. n -> ItemKinds] : n \in 0 .. MaxKids}

\* tables of security descriptor sizes; the sizes of the last one add up
\* to 2^32
SdSizes == {<<>>, <<Big(20)>>, <<Big(20), Big(13)>>,
            <<[h |-> 32768, l |-> 0], [h |-> 32768, l |-> 0]>>}

MkSecurityData(sizes) ==
    [total_length |-> U32(BAdd(Big(8 * Len(sizes) + 8), BSum(sizes))),
     num_entries |-> Len(sizes),
     sizes |-> sizes,
     descriptors |-> [k \in 1 .. Len(sizes) |-> k]]

RECURSIVE SeqOfSet(_)
SeqOfSet(S) ==
    IF S = {} THEN <<>>
    ELSE LET m == CHOOSE x \in S : \A y \in S : x <= y
         IN <<m>> \o SeqOfSet(S \ {m})

InodeNumbers(root) ==
    LET list == PreOrder(root)
    IN {list[k].d_inode.i_ino : k \in 1 .. Len(list)}

MkImage(rootName, kinds, sizes) ==
    LET nH == Cardinality({k \in 1 .. Len(kinds) : kinds[k] \in {"H", "DH"}})
        root == MkDentry(rootName, <<>>,
                         MkInode(1, {FILE_ATTRIBUTE_DIRECTORY}, -1, 1), "self",
                         [k \in 1 .. Len(kinds) |->
                             Item(kinds[k], k, nH, Len(sizes))])
    IN [root_dentry |-> root,
        security_data |-> MkSecurityData(sizes),
        inode_list |-> SeqOfSet(InodeNumbers(root)),
        unhashed_streams |-> IF Len(kinds) = 0 THEN <<>> ELSE <<"blob">>]

RootlessImage ==
    [root_dentry |-> NULL, security_data |-> MkSecurityData(<<>>),
     inode_list |-> <<>>, unhashed_streams |-> <<>>]

Images ==
    {MkImage(n, ks, z) : n \in {<<>>, <<88>>}, ks \in KindSeqs, z \in SdSizes}
    \cup {RootlessImage}

\* image metadata that nothing was read into yet
FreshImd ==
    [root_dentry |-> NULL, security_data |-> NULL, inode_list |-> <<>>,
     unhashed_streams |-> <<"uninitialized">>]

FreshLte ==
    [size |-> Big(0), hash |-> [sha1_of |-> NULL],
     dont_check_metadata_hash |-> FALSE, out_reshdr |-> NULL]

(***************************************************************************)
(* What two images are compared on: the tree with its names (the root's    *)
(* cleared), attributes, security ids, link counts and which dentries      *)
(* share an inode; the security table; the number of inodes listed.        *)
(***************************************************************************)
CanonInode(list, k) ==
    [group |-> CHOOSE j \in 1 .. k :
                  /\ list[j].d_inode.i_ino = list[k].d_inode.i_ino
                  /\ \A m \in 1 .. (j - 1) :
                        list[m].d_inode.i_ino # list[k].d_inode.i_ino,
     i_attributes |-> list[k].d_inode.i_attributes,
     i_security_id |-> list[k].d_inode.i_security_id,
     i_nlink |-> list[k].d_inode.i_nlink]

RECURSIVE CanonTree(_, _, _), CanonKids(_, _, _)
CanonTree(d, list, k) ==
    LET r == CanonKids(d.children, list, k + 1)
    IN [d |-> [file_name |-> d.file_name, short_name |-> d.short_name,
               inode |-> CanonInode(list, k), children |-> r.kids],
        k |-> r.k]

CanonKids(kids, list, k) ==
    IF kids = <<>> THEN [kids |-> <<>>, k |-> k]
    ELSE LET h == CanonTree(Head(kids), list, k)
             t == CanonKids(Tail(kids), list, h.k)
         IN [kids |-> <<h.d>> \o t.kids, k |-> t.k]

Canon(i) ==
    [root |-> IF IsNull(i.root_dentry) THEN NULL
              ELSE CanonTree(drop_root_names(i.root_dentry),
                             PreOrder(i.root_dentry), 1).d,
     security_data |-> IF IsNull(i.security_data) THEN NULL
                       ELSE [num_entries |-> i.security_data.num_entries,
                             sizes |-> i.security_data.sizes,
                             descriptors |-> i.security_data.descriptors],
     inodes |-> Len(i.inode_list),
     unhashed_streams |-> <<>>]
(***************************************************************************)
(* Metadata resources as they may be found in a WIM file.                  *)
(***************************************************************************)
EmptySd ==
    [total_length |-> Big(8), num_entries |-> 0, sizes |-> <<>>,
     descriptors |-> <<>>]

DiskDentry(len, attrs, sid, sub, gid, fn, sn) ==
    [length |-> Big(len), attributes |-> attrs, security_id |-> sid,
     subdir_offset |-> Big(sub), hard_link_group_id |-> gid,
     file_name |-> fn, short_name |-> sn]

Resource(size, sd, ents) ==
    [size |-> Big(size), sd |-> sd, at |-> BufferAt(ents, Big(size))]

DiskDir == {FILE_ATTRIBUTE_DIRECTORY}
DiskFile == {FILE_ATTRIBUTE_NORMAL}

CraftedResources ==
    [empty16 |->
        Resource(16, EmptySd, << <<Big(8), EndOfDirectory>> >>),
     empty112 |->
        Resource(112, EmptySd, << <<Big(8), EndOfDirectory>> >>),
     empty_tl0 |->
        Resource(112, [EmptySd EXCEPT !.total_length = Big(0)],
                 << <<Big(8), EndOfDirectory>> >>),
     len20 |->
        Resource(20, EmptySd, << <<Big(8), EndOfDirectory>> >>),
     len109 |->
        Resource(109, EmptySd,
                 << <<Big(8), DiskDentry(101, DiskDir, -1, 0, 0, <<>>, <<>>)>> >>),
     len110 |->
        Resource(110, EmptySd,
                 << <<Big(8), DiskDentry(102, DiskDir, -1, 0, 0, <<>>, <<>>)>> >>),
     named_root |->
        Resource(136, EmptySd,
                 << <<Big(8), DiskDentry(112, DiskDir, -1, 128, 0, <<88>>, <<>>)>>,
                    <<Big(120), EndOfDirectory>>,
                    <<Big(128), EndOfDirectory>> >>),
     short_named_root |->
        Resource(136, EmptySd,
                 << <<Big(8), DiskDentry(112, DiskDir, -1, 128, 0, <<>>, <<88>>)>>,
                    <<Big(120), EndOfDirectory>>,
                    <<Big(128), EndOfDirectory>> >>),
     nondir_root |->
        Resource(120, EmptySd,
                 << <<Big(8), DiskDentry(104, DiskFile, -1, 0, 0, <<>>, <<>>)>>,
                    <<Big(112), EndOfDirectory>> >>),
     named_nondir_root |->
        Resource(128, EmptySd,
                 << <<Big(8), DiskDentry(112, DiskFile, -1, 0, 0, <<88>>, <<>>)>>,
                    <<Big(120), EndOfDirectory>> >>),
     bad_security_id |->
        Resource(240, EmptySd,
                 << <<Big(8), DiskDentry(104, DiskDir, -1, 120, 0, <<>>, <<>>)>>,
                    <<Big(112), EndOfDirectory>>,
                    <<Big(120), DiskDentry(112, DiskFile, 5, 0, 0, <<70>>, <<>>)>>,
                    <<Big(232), EndOfDirectory>> >>),
     bad_child |->
        Resource(240, EmptySd,
                 << <<Big(8), DiskDentry(104, DiskDir, -1, 124, 0, <<>>, <<>>)>>,
                    <<Big(112), EndOfDirectory>>,
                    <<Big(120), DiskDentry(112, DiskFile, -1, 0, 0, <<70>>, <<>>)>>,
                    <<Big(232), EndOfDirectory>> >>),
     child_past_end |->
        Resource(200, EmptySd,
                 << <<Big(8), DiskDentry(104, DiskDir, -1, 120, 0, <<>>, <<>>)>>,
                    <<Big(112), EndOfDirectory>>,
                    <<Big(120), DiskDentry(112, DiskFile, -1, 0, 0, <<70>>, <<>>)>> >>),
     bad_links |->
        Resource(352, EmptySd,
                 << <<Big(8), DiskDentry(104, DiskDir, -1, 120, 0, <<>>, <<>>)>>,
                    <<Big(112), EndOfDirectory>>,
                    <<Big(120), DiskDentry(112, DiskFile, -1, 0, 7, <<70>>, <<>>)>>,
                    <<Big(232), DiskDentry(112, DiskDir, -1, 0, 7, <<71>>, <<>>)>>,
                    <<Big(344), EndOfDirectory>> >>),
     cycle |->
        Resource(240, EmptySd,
                 << <<Big(8), DiskDentry(104, DiskDir, -1, 120, 0, <<>>, <<>>)>>,
                    <<Big(112), EndOfDirectory>>,
                    <<Big(120), DiskDentry(112, DiskDir, -1, 120, 0, <<68>>, <<>>)>>,
                    <<Big(232), EndOfDirectory>> >>),
     bad_security_data |->
        Resource(120, [EmptySd EXCEPT !.total_length = Big(4096)],
                 << <<Big(8), DiskDentry(104, DiskDir, -1, 0, 0, <<>>, <<>>)>>,
                    <<Big(112), EndOfDirectory>> >>),
     linked |->
        Resource(384, [total_length |-> Big(40), num_entries |-> 1,
                       sizes |-> <<Big(20)>>, descriptors |-> <<1>>],
                 << <<Big(40), DiskDentry(104, DiskDir, -1, 152, 0, <<>>, <<>>)>>,
                    <<Big(144), EndOfDirectory>>,
                    <<Big(152), DiskDentry(112, DiskFile, 0, 0, 7, <<70>>, <<>>)>>,
                    <<Big(264), DiskDentry(112, DiskFile, 0, 0, 7, <<71>>, <<>>)>>,
                    <<Big(376), EndOfDirectory>> >>)]

ReadFails == {"none", "read_full_stream_into_alloc_buf",
              "read_wim_security_data", "MALLOC", "dentry_tree_fix_inodes"}

WriteFails == {"none", "select_wim_image", "new_filler_directory", "MALLOC",
               "write_wim_resource_from_buffer"}

NoResult ==
    [op |-> "none", ret |-> "none", fail |-> "none", heap |-> {},
     log |-> <<>>, len |-> Big(0), p |-> Big(0), before |-> FreshImd]

InitMeta ==
    /\ VolumeOff
    /\ ThreadsOff
    /\ CaptureOff
    /\ imd = FreshImd
    /\ lte = FreshLte
    /\ res = NULL
    /\ morig = NULL
    /\ mphase = "start"
    /\ mres = NoResult

\* an image is captured or was changed in memory
LoadImage(img) ==
    /\ mphase = "start"
    /\ imd' = img
    /\ morig' = img
    /\ mphase' = "image"
    /\ UNCHANGED <<lte, res, mres>>

\* write_metadata_resource on the image.  When the cursor does not end at
\* len the writer has written outside the buffer: the process is stopped
\* (by the assertion or by the fault) or goes on with the len bytes of
\* the buffer.
WriteMetadataResource(fail, stops) ==
    /\ mphase = "image"
    /\ \E w \in {write_metadata_resource(imd, lte, fail)} :
          /\ stops => (w.ret = WIMLIB_ERR_SUCCESS /\ w.p # w.len)
          /\ mphase' = IF stops THEN "aborted"
                       ELSE IF w.ret = WIMLIB_ERR_SUCCESS THEN "written"
                       ELSE "write_failed"
          /\ imd' = w.imd
          /\ lte' = IF stops THEN lte ELSE w.lte
          /\ res' = IF stops THEN res ELSE w.out
          /\ mres' = [NoResult EXCEPT !.op = "write",
                          !.ret = IF stops THEN "aborted" ELSE w.ret,
                          !.fail = fail, !.len = w.len, !.p = w.p,
                          !.before = imd]
    /\ UNCHANGED morig

\* the WIM is opened again: the lookup table entry of the resource carries
\* its size and hash, and the image metadata is not loaded
Reopen ==
    /\ mphase = "written"
    /\ imd' = FreshImd
    /\ lte' = [size |-> lte.out_reshdr.uncompressed_size, hash |-> lte.hash,
                dont_check_metadata_hash |-> FALSE, out_reshdr |-> NULL]
    /\ mphase' = "opened"
    /\ mres' = NoResult
    /\ UNCHANGED <<res, morig>>

\* a WIM file holding resource name is opened; hashOk: the hash in its
\* lookup table is that of the resource
OpenResource(name, hashOk, flag) ==
    /\ mphase = "start"
    /\ res' = CraftedResources[name]
    /\ lte' = [size |-> CraftedResources[name].size,
                hash |-> IF hashOk THEN sha1_buffer(CraftedResources[name])
                         ELSE [sha1_of |-> NULL],
                dont_check_metadata_hash |-> flag, out_reshdr |-> NULL]
    /\ mphase' = "opened"
    /\ UNCHANGED <<imd, morig, mres>>

ReadMetadataResource(fail) ==
    /\ mphase = "opened"
    /\ LET r == read_metadata_resource(imd, lte, res, fail)
       IN /\ imd' = r.imd
          /\ mres' = [NoResult EXCEPT !.op = "read", !.ret = r.ret,
                          !.fail = fail, !.heap = r.heap, !.log = r.log,
                          !.before = imd]
    /\ mphase' = "read"
    /\ UNCHANGED <<lte, res, morig>>

NextMeta ==
    \/ \E img \in Images : LoadImage(img) /\ UNCHANGED <<volVars, thrVars, capVars>>
    \/ \E f \in WriteFails, stops \in BOOLEAN :
          WriteMetadataResource(f, stops) /\ UNCHANGED <<volVars, thrVars, capVars>>
    \/ Reopen /\ UNCHANGED <<volVars, thrVars, capVars>>
    \/ \E n \in DOMAIN CraftedResources, h \in BOOLEAN, f \in BOOLEAN :
          OpenResource(n, h, f) /\ UNCHANGED <<volVars, thrVars, capVars>>
    \/ \E f \in ReadFails :
          ReadMetadataResource(f) /\ UNCHANGED <<volVars, thrVars, capVars>>

SpecMeta == InitMeta /\ [][NextMeta]_vars
(***************************************************************************)
(* Properties of the metadata reader and writer.                           *)
(***************************************************************************)
LogHas(step) == \E k \in 1 .. Len(mres.log) : mres.log[k] = step

\* the read that was done came after a write of morig and a reopen
ReadBack == mphase = "read" /\ ~IsNull(morig) /\ mres.fail = "none"

\* C4: round trip: when an image was written and the resource read back
\* with no call failing, the read succeeds and the image read is
\* structurally equal to the original (root name cleared, inode list
\* compared by size, unhashed-streams list empty).
C4_RoundTrip ==
    ReadBack =>
        /\ mres.ret = WIMLIB_ERR_SUCCESS
        /\ Canon(imd) = Canon(morig)

\* the resource holds the 8-byte security block without entries and, right
\* after it, an entry whose length is 0
IsEmptyImageBuffer(b) ==
    /\ b.sd.total_length = Big(8)
    /\ b.sd.num_entries = 0
    /\ Big(8) \in DOMAIN b.at
    /\ b.at[Big(8)].length = Big(0)

EmptyImageRead ==
    /\ mphase = "read"
    /\ IsEmptyImageBuffer(res)
    /\ mres.fail = "none"
    /\ lte.dont_check_metadata_hash \/ lte.hash = sha1_buffer(res)

ReadAsEmptyImage ==
    /\ mres.ret = WIMLIB_ERR_SUCCESS
    /\ IsNull(imd.root_dentry)
    /\ ~IsNull(imd.security_data)
    /\ imd.security_data.num_entries = 0
    /\ imd.unhashed_streams = <<>>

\* C5 as stated: a resource that is the 8-byte security block followed by
\* a root entry of length 0 (16 bytes) is read without error, with a null
\* root, no security entries and an empty unhashed-streams list.
C5_EmptyImage ==
    (EmptyImageRead /\ res.size = Big(16)) => ReadAsEmptyImage

\* C5: a resource of at least 8 + WIM_DENTRY_DISK_SIZE bytes that begins
\* with the 8-byte security block without entries followed by a root entry
\* of length 0 is read without error, with a null root, no security
\* entries and an empty unhashed-streams list; a shorter one is rejected
\* with WIMLIB_ERR_INVALID_METADATA_RESOURCE.
C5_EmptyImagePadded ==
    EmptyImageRead =>
        IF BLe(Big(8 + WIM_DENTRY_DISK_SIZE), res.size)
        THEN ReadAsEmptyImage
        ELSE mres.ret = WIMLIB_ERR_INVALID_METADATA_RESOURCE

C5_Witness ==
    /\ EmptyImageRead
    /\ res = CraftedResources.empty112
    /\ ReadAsEmptyImage
    /\ mres.before.security_data = NULL

\* C6: a read of a resource shorter than 8 + WIM_DENTRY_DISK_SIZE bytes
\* returns WIMLIB_ERR_INVALID_METADATA_RESOURCE whatever would have failed
\* later, having made no call (the resource is not read, no hash is
\* computed), allocated nothing and left the image metadata as it was.
C6_LengthFloor ==
    (mres.op = "read" /\ BLt(lte.size, Big(8 + WIM_DENTRY_DISK_SIZE))) =>
        /\ mres.ret = WIMLIB_ERR_INVALID_METADATA_RESOURCE
        /\ mres.log = <<>>
        /\ mres.heap = {}
        /\ imd = mres.before

C6_Witness ==
    /\ mres.op = "read"
    /\ lte.size = Big(20)
    /\ res = CraftedResources.len20
    /\ mres.ret = WIMLIB_ERR_INVALID_METADATA_RESOURCE
    /\ mres.log = <<>>

\* C7: for a resource that passed the length floor and was read into
\* memory: with dont_check_metadata_hash false and a SHA-1 other than the
\* expected one the read returns WIMLIB_ERR_INVALID_METADATA_RESOURCE
\* right after hashing (no security data or dentry is parsed, nothing is
\* kept, the image metadata is as before); with the flag set no hash is
\* computed and the outcome is the one of the same read with the right
\* hash stored.
C7_HashCheck ==
    (/\ mres.op = "read"
     /\ BLe(Big(8 + WIM_DENTRY_DISK_SIZE), lte.size)
     /\ mres.fail # "read_full_stream_into_alloc_buf") =>
        /\ (~lte.dont_check_metadata_hash /\ sha1_buffer(res) # lte.hash) =>
              /\ mres.ret = WIMLIB_ERR_INVALID_METADATA_RESOURCE
              /\ mres.log = <<"read_full_stream_into_alloc_buf",
                              "sha1_buffer">>
              /\ mres.heap = {}
              /\ imd = mres.before
        /\ lte.dont_check_metadata_hash =>
              /\ ~LogHas("sha1_buffer")
              /\ \E r \in {read_metadata_resource(mres.before,
                                [lte EXCEPT !.hash = sha1_buffer(res),
                                            !.dont_check_metadata_hash = FALSE],
                                res, mres.fail)} :
                    mres.ret = r.ret /\ imd = r.imd

C7_Witness ==
    /\ mres.op = "read"
    /\ lte.dont_check_metadata_hash
    /\ sha1_buffer(res) # lte.hash
    /\ mres.ret = WIMLIB_ERR_SUCCESS
    /\ ~IsNull(imd.root_dentry)

\* the root entry as read_dentry decodes it, once the security data parsed
DecodedRoot ==
    read_dentry(res, lte.size,
                read_wim_security_data(res, lte.size, "none").sd.total_length)

\* C8: after a read, a non-null root of a successful read is a directory,
\* its own parent and without long or short name; a decoded root that is
\* not a directory makes the read return
\* WIMLIB_ERR_INVALID_METADATA_RESOURCE; a decoded directory root is never
\* what the read fails on, named or not: a failure comes from a later
\* step.
C8_RootSanity ==
    mres.op = "read" =>
        /\ (mres.ret = WIMLIB_ERR_SUCCESS /\ ~IsNull(imd.root_dentry)) =>
              /\ dentry_is_directory(imd.root_dentry)
              /\ imd.root_dentry.parent = "self"
              /\ imd.root_dentry.file_name = <<>>
              /\ imd.root_dentry.short_name = <<>>
        /\ LogHas("read_dentry") =>
              \E r \in {DecodedRoot} :
                 (r.ret = WIMLIB_ERR_SUCCESS /\ r.dentry.length # Big(0)) =>
                    IF dentry_is_directory(r.dentry)
                    THEN mres.ret # WIMLIB_ERR_SUCCESS
                            => LogHas("read_dentry_tree")
                    ELSE mres.ret = WIMLIB_ERR_INVALID_METADATA_RESOURCE

C8_Witness ==
    /\ mres.op = "read"
    /\ LogHas("read_dentry")
    /\ res = CraftedResources.named_root
    /\ dentry_has_long_name(DecodedRoot.dentry)
    /\ mres.ret = WIMLIB_ERR_SUCCESS
    /\ imd.root_dentry.file_name = <<>>
    /\ imd.root_dentry.parent = "self"

\* C9: a read that returns an error has freed every object it allocated
\* (buffer, security data, root dentry with its inode and names, the tree
\* read so far) and has left the image metadata as it was.
C9_AllOrNothing ==
    (mres.op = "read" /\ mres.ret # WIMLIB_ERR_SUCCESS) =>
        /\ mres.heap = {}
        /\ imd = mres.before

\* C10: whenever the writer has allocated and filled the buffer, the write
\* cursor is at its end: p - buf = len, len being the final subdir_offset
\* of the offset assignment, and nothing was written outside the buffer.
C10_WriterSizeExact ==
    (mres.op = "write"
     /\ mres.ret \in {WIMLIB_ERR_SUCCESS, WIMLIB_ERR_WRITE, "aborted"}) =>
        /\ mres.p = mres.len
        /\ mres.ret # "aborted"

\* C19: once the writer has recalculated the security data length,
\* total_length is 8 + 8 * num_entries plus the sum of the sizes, rounded
\* up to 8, as a number (no 32-bit wrap-around), and a resource that was
\* written has its root dentry at that offset.
C19_SecurityLength ==
    (mres.op = "write"
     /\ mres.fail \in {"none", "MALLOC", "write_wim_resource_from_buffer"}) =>
        /\ imd.security_data.total_length =
              BAlign8(BAdd(Big(8 * imd.security_data.num_entries + 8),
                           BSum(imd.security_data.sizes)))
        /\ mphase = "written" =>
              /\ imd.security_data.total_length \in DOMAIN res.at
              /\ res.at[imd.security_data.total_length].length
                    = Big(dentry_out_total_length(imd.root_dentry))

\* C20: after write_metadata_resource, dont_check_metadata_hash is set
\* only together with the resource header and the SHA-1 of the buffer just
\* written, and a write that failed (in preparation or in the resource
\* writer) has left the flag and the hash of the entry as they were.
C20_WriterHandOff ==
    mres.op = "write" =>
        /\ lte.dont_check_metadata_hash =>
              /\ mres.ret = WIMLIB_ERR_SUCCESS
              /\ lte.hash = sha1_buffer(res)
              /\ lte.out_reshdr = [uncompressed_size |-> res.size]
        /\ mres.ret # WIMLIB_ERR_SUCCESS =>
              /\ lte.dont_check_metadata_hash
                    = FreshLte.dont_check_metadata_hash
              /\ lte.hash = FreshLte.hash

(***************************************************************************)
(* read_ntfs_attribute_prefix: the first `size' bytes of the attribute a   *)
(* blob refers to are handed to the consumer chunk by chunk.  Sizes are    *)
(* below 2^63 (an attribute is never longer), so s64 and u64 agree.        *)
(***************************************************************************)
MaxChunks == 2      \* full buffers the longest prefix read spans

\* sizeof(buf); the header that gives BUFFER_SIZE its value is not part of
\* the sources at hand, the value is the lower end of the documented range
BUFFER_SIZE == 32768

CONSUMER_STOPPED == "CONSUMER_STOPPED"

Min(a, b) == IF a < b THEN a ELSE b

PrefixSizes == {n \in {k * BUFFER_SIZE + d : k \in 0 .. MaxChunks, d \in {-1, 0, 1}} : n >= 0}
AttrLengths == {0, REPARSE_DATA_OFFSET, BUFFER_SIZE + REPARSE_DATA_OFFSET,
                MaxChunks * BUFFER_SIZE + REPARSE_DATA_OFFSET + 1}
PrefixOpenFails == {"none", "ntfs_inode_open", "open_ntfs_attr"}
\* 0: never; k: at the k-th chunk
ChunkNumbers == 0 .. MaxChunks + 1

\* pos = (loc->attr_type == AT_REPARSE_POINT) ? REPARSE_DATA_OFFSET : 0
prefix_start_zero(type) == 0
prefix_start(type) == IF type = AT_REPARSE_POINT THEN REPARSE_DATA_OFFSET ELSE 0

\* ntfs_attr_pread: the number of bytes read, or -1 with errno set
ntfs_attr_pread(attr_len, pos, count, io_error) ==
    IF io_error THEN -1
    ELSE IF pos >= attr_len THEN 0
    ELSE Min(count, attr_len - pos)

\* call_consume_chunk: what the consumer returns for its k-th chunk
call_consume_chunk(k, stop_at) == IF k = stop_at THEN CONSUMER_STOPPED ELSE WIMLIB_ERR_SUCCESS

InitPrefix ==
    /\ VolumeOff
    /\ ThreadsOff
    /\ MetaOff
    /\ WalkOff
    /\ SortOff
    /\ \E t \in {AT_DATA, AT_REPARSE_POINT}, a \in AttrLengths, n \in PrefixSizes,
          f \in PrefixOpenFails, b \in ChunkNumbers, c \in ChunkNumbers :
          rd = [pc |-> "call", attr_type |-> t, attr_len |-> a, size |-> n,
                fail |-> f, io_error_at |-> b, stop_at |-> c,
                pos |-> 0, bytes_remaining |-> 0, chunks |-> <<>>,
                ret |-> "none", h |-> NoHandles]

\* entry up to the loop: the inode and the attribute are opened
ReadPrefixEnter ==
    /\ rd.pc = "call"
    /\ rd' = IF rd.fail = "ntfs_inode_open"
             THEN [rd EXCEPT !.pc = "done", !.ret = WIMLIB_ERR_NTFS_3G]
             ELSE IF rd.fail = "open_ntfs_attr"
             THEN [rd EXCEPT !.pc = "done", !.ret = WIMLIB_ERR_NTFS_3G,
                             !.h = Closed(Opened(@, "ni"), "ni")]
             ELSE [rd EXCEPT !.pc = "loop",
                             !.h = Opened(Opened(@, "ni"), "na"),
                             !.pos = prefix_start(rd.attr_type),
                             !.bytes_remaining = rd.size]

\* one turn of while (bytes_remaining)
ReadPrefixChunk ==
    /\ rd.pc = "loop"
    /\ rd.bytes_remaining # 0
    /\ LET k == Len(rd.chunks) + 1
           to_read == Min(rd.bytes_remaining, BUFFER_SIZE)
           got == ntfs_attr_pread(rd.attr_len, rd.pos, to_read, rd.io_error_at = k)
           ret == call_consume_chunk(k, rd.stop_at)
       IN  rd' = IF got # to_read
                 THEN [rd EXCEPT !.pc = "done", !.ret = WIMLIB_ERR_NTFS_3G,
                                 !.h = Closed(Closed(@, "na"), "ni")]
                 ELSE IF ret # WIMLIB_ERR_SUCCESS
                 THEN [rd EXCEPT !.pc = "done", !.ret = ret,
                                 !.pos = @ + to_read,
                                 !.bytes_remaining = @ - to_read,
                                 !.chunks = Append(@, [pos |-> rd.pos, len |-> to_read]),
                                 !.h = Closed(Closed(@, "na"), "ni")]
                 ELSE [rd EXCEPT !.pos = @ + to_read,
                                 !.bytes_remaining = @ - to_read,
                                 !.chunks = Append(@, [pos |-> rd.pos, len |-> to_read])]

\* the loop condition is false: ret = 0 and both handles are closed
ReadPrefixReturn ==
    /\ rd.pc = "loop"
    /\ rd.bytes_remaining = 0
    /\ rd' = [rd EXCEPT !.pc = "done", !.ret = WIMLIB_ERR_SUCCESS,
                        !.h = Closed(Closed(@, "na"), "ni")]

NextPrefix ==
    \/ ReadPrefixEnter /\ UNCHANGED <<volVars, thrVars, metaVars, walkVars, sk>>
    \/ ReadPrefixChunk /\ UNCHANGED <<volVars, thrVars, metaVars, walkVars, sk>>
    \/ ReadPrefixReturn /\ UNCHANGED <<volVars, thrVars, metaVars, walkVars, sk>>

SpecPrefix == InitPrefix /\ [][NextPrefix]_vars /\ WF_vars(NextPrefix)

\* What a prefix read of n bytes is to deliver: chunk k of the N chunks.
PrefixStart == IF rd.attr_type = AT_REPARSE_POINT THEN 8 ELSE 0
PrefixChunkCount == (rd.size + BUFFER_SIZE - 1) \div BUFFER_SIZE
PrefixChunk(k) ==
    [pos |-> PrefixStart + (k - 1) * BUFFER_SIZE,
     len |-> IF k * BUFFER_SIZE <= rd.size THEN BUFFER_SIZE
             ELSE rd.size - (k - 1) * BUFFER_SIZE]
\* chunk k cannot be read in full
ShortRead(k) ==
    \/ rd.io_error_at = k
    \/ PrefixChunk(k).pos + PrefixChunk(k).len > rd.attr_len
FirstShortRead ==
    IF \E k \in 1 .. PrefixChunkCount : ShortRead(k)
    THEN CHOOSE k \in 1 .. PrefixChunkCount :
            ShortRead(k) /\ \A j \in 1 .. k - 1 : ~ShortRead(j)
    ELSE 0
ConsumerStops ==
    /\ rd.stop_at \in 1 .. PrefixChunkCount
    /\ FirstShortRead = 0 \/ rd.stop_at < FirstShortRead

C17_Chunks ==
    rd.pc \in {"loop", "done"} /\ rd.fail = "none" =>
        /\ \A k \in 1 .. Len(rd.chunks) :
              /\ rd.chunks[k] = PrefixChunk(k)
              /\ rd.chunks[k].len \in 1 .. BUFFER_SIZE
              /\ rd.chunks[k].pos + rd.chunks[k].len <= PrefixStart + rd.size
        /\ rd.pc = "done" =>
              /\ rd.ret = WIMLIB_ERR_SUCCESS <=>
                    FirstShortRead = 0 /\ ~ConsumerStops
              /\ rd.ret = WIMLIB_ERR_SUCCESS =>
                    /\ Len(rd.chunks) = PrefixChunkCount
                    /\ rd.size = 0 \/
                          rd.chunks[Len(rd.chunks)].pos + rd.chunks[Len(rd.chunks)].len
                             = PrefixStart + rd.size
              /\ ConsumerStops =>
                    rd.ret = CONSUMER_STOPPED /\ Len(rd.chunks) = rd.stop_at
              /\ FirstShortRead # 0 /\ ~ConsumerStops =>
                    rd.ret = WIMLIB_ERR_NTFS_3G /\ Len(rd.chunks) = FirstShortRead - 1

\* C17: a prefix read of n bytes delivers consecutive chunks of at most the
\* buffer size that together cover [s, s + n), s being 8 for a reparse point
\* attribute and 0 otherwise; it returns 0 only after all n bytes, stops with
\* a read error at the first short read without delivering that chunk, stops
\* at the first nonzero return of the consumer with that value, and the loop
\* comes to an end for every n.
C17_ReadPrefix == [](C17_Chunks) /\ <>(rd.pc = "done")

C17_Witness ==
    /\ rd.pc = "done"
    /\ rd.ret = WIMLIB_ERR_SUCCESS
    /\ rd.attr_type = AT_REPARSE_POINT
    /\ Len(rd.chunks) = 2
    /\ rd.chunks[1] = [pos |-> 8, len |-> BUFFER_SIZE]
    /\ rd.chunks[2] = [pos |-> BUFFER_SIZE + 8, len |-> 1]


(***************************************************************************)
(* The capture walk: ntfs_3g_build_dentry_tree_recursive, filldir and      *)
(* ntfs_3g_recurse_directory over the directory tree of one volume.        *)
(***************************************************************************)
MaxEntries == 3     \* entries in the index of the volume's root directory

FILE_root == 5

FILE_NAME_POSIX == {}
FILE_NAME_WIN32 == {"WIN32"}
FILE_NAME_DOS == {"DOS"}
FILE_NAME_WIN32_AND_DOS == {"WIN32", "DOS"}

FILE_ATTRIBUTE_ENCRYPTED == "FILE_ATTRIBUTE_ENCRYPTED"
FILE_ATTRIBUTE_REPARSE_POINT == "FILE_ATTRIBUTE_REPARSE_POINT"

WIMLIB_ERR_UNSUPPORTED_FILE == "WIMLIB_ERR_UNSUPPORTED_FILE"
WIMLIB_ERR_ABORTED_BY_PROGRESS == "WIMLIB_ERR_ABORTED_BY_PROGRESS"
WIMLIB_ERR_INVALID_UTF16_STRING == "WIMLIB_ERR_INVALID_UTF16_STRING"

WIMLIB_SCAN_DENTRY_OK == "WIMLIB_SCAN_DENTRY_OK"
WIMLIB_SCAN_DENTRY_EXCLUDED == "WIMLIB_SCAN_DENTRY_EXCLUDED"
WIMLIB_SCAN_DENTRY_UNSUPPORTED == "WIMLIB_SCAN_DENTRY_UNSUPPORTED"

NtfsAttr(type, data_size, name_nchars) ==
    [type |-> type, data_size |-> data_size, name_nchars |-> name_nchars]
DirEntry(name, name_type, mref) ==
    [name |-> name, name_type |-> name_type, mref |-> mref]

\* The files of the volume, by MFT number: a file with two data streams and
\* several names, an encrypted file, a reparse point and a directory.
NtfsInodes ==
    (FILE_root :> [attributes |-> {FILE_ATTRIBUTE_DIRECTORY}, attrs |-> <<>>])
    @@ (64 :> [attributes |-> {},
               attrs |-> <<NtfsAttr(AT_DATA, 12, 0), NtfsAttr(AT_DATA, 0, 3)>>])
    @@ (65 :> [attributes |-> {FILE_ATTRIBUTE_ENCRYPTED},
               attrs |-> <<NtfsAttr(AT_DATA, 12, 0)>>])
    @@ (66 :> [attributes |-> {FILE_ATTRIBUTE_REPARSE_POINT},
               attrs |-> <<NtfsAttr(AT_REPARSE_POINT, 12, 0)>>])
    @@ (70 :> [attributes |-> {FILE_ATTRIBUTE_DIRECTORY}, attrs |-> <<>>])

\* What the index of the root directory can hold, in index order.
RootIndex ==
    << DirEntry("a", FILE_NAME_POSIX, 64),
       DirEntry("A~1", FILE_NAME_DOS, 64),
       DirEntry("b", FILE_NAME_WIN32, 64),
       DirEntry("B~1", FILE_NAME_DOS, 64),
       DirEntry("c", FILE_NAME_WIN32_AND_DOS, 66),
       DirEntry("d", FILE_NAME_POSIX, 70),
       DirEntry("e", FILE_NAME_POSIX, 65),
       DirEntry("f", FILE_NAME_WIN32, 64) >>

\* The index of directory 70: further names of files 64 and 66.
SubdirIndex ==
    << DirEntry("x", FILE_NAME_POSIX, 64), DirEntry("y", FILE_NAME_POSIX, 66) >>

\* the entries of RootIndex at the positions in S, in index order
RECURSIVE Pick(_, _)
Pick(S, i) ==
    IF i > Len(RootIndex) THEN <<>>
    ELSE IF i \in S THEN <<RootIndex[i]>> \o Pick(S, i + 1)
    ELSE Pick(S, i + 1)

RootIndexes ==
    {Pick(S, 1) : S \in {T \in SUBSET (1 .. Len(RootIndex)) : Cardinality(T) <= MaxEntries}}

\* paths the capture configuration excludes
ExcludeLists == {{}, {"/d/y"}}

HasEntry(index, name) == \E k \in 1 .. Len(index) : index[k].name = name

\* The captures: a root index and the capture parameters.  A parameter that
\* no call reads on a volume (the exclusion of a path the volume lacks, the
\* flag for encrypted files where none is encrypted) is left at its default.
Captures ==
    {c \in [root_index : RootIndexes, exclude : ExcludeLists,
             no_unsupported_exclude : BOOLEAN] :
        /\ c.exclude # {} => HasEntry(c.root_index, "d")
        /\ c.no_unsupported_exclude => HasEntry(c.root_index, "e")}

\* ntfs_readdir hands filldir the entries of a directory's index
IndexOf(vol, mref) ==
    IF mref = FILE_root THEN vol.root_index
    ELSE IF mref = 70 THEN SubdirIndex
    ELSE <<>>

(***************************************************************************)
(* Dentries, the inode table and the list of unhashed blobs.               *)
(*   w = [dent, ino, blobs, hnd] is what a call works on and hands back    *)
(***************************************************************************)
WState == [dent |-> wdent, ino |-> wino, blobs |-> wblobs, hnd |-> whnd]

FreshDentry(dent) ==
    CHOOSE d \in 1 .. (Cardinality(DOMAIN dent) + 1) :
        d \notin DOMAIN dent /\ \A c \in 1 .. d - 1 : c \in DOMAIN dent

\* inode_table_new_dentry: a new dentry whose inode is the one the table
\* holds for this inode number (one more link), or a new inode
inode_table_new_dentry(w, name, ino, fail) ==
    IF fail = "inode_table_new_dentry"
    THEN [ret |-> WIMLIB_ERR_NOMEM, w |-> w, root |-> 0]
    ELSE LET d == FreshDentry(w.dent)
             dentry == [d_name |-> name, d_inode |-> ino, is_win32_name |-> FALSE,
                        d_short_name |-> "", d_parent |-> 0]
             inode == IF ino \in DOMAIN w.ino
                      THEN [w.ino[ino] EXCEPT !.i_nlink = @ + 1]
                      ELSE [i_ino |-> ino, i_nlink |-> 1, i_attributes |-> {},
                            i_streams |-> <<>>, scanned |-> 0, security |-> 0,
                            recursed |-> 0]
         IN  [ret |-> WIMLIB_ERR_SUCCESS,
              w |-> [w EXCEPT !.dent = (d :> dentry) @@ w.dent,
                              !.ino = (ino :> inode) @@ w.ino],
              root |-> d]

RECURSIVE IsUnder(_, _, _)
IsUnder(dent, d, root) ==
    \/ d = root
    \/ dent[d].d_parent # 0 /\ IsUnder(dent, dent[d].d_parent, root)

\* free_dentry_tree: every dentry of the subtree gives up its link; an
\* inode left without links is freed together with its unhashed blobs
free_dentry_tree(w, root) ==
    IF root = 0 THEN w
    ELSE LET sub == {d \in DOMAIN w.dent : IsUnder(w.dent, d, root)}
             links(i) == Cardinality({d \in sub : w.dent[d].d_inode = i})
             gone == {i \in DOMAIN w.ino : w.ino[i].i_nlink - links(i) = 0}
             keep(b) == b.ntfs_loc.mft_no \notin gone
         IN  [w EXCEPT !.dent = [d \in DOMAIN w.dent \ sub |-> w.dent[d]],
                       !.ino = [i \in DOMAIN w.ino \ gone |->
                                   [w.ino[i] EXCEPT !.i_nlink = @ - links(i)]],
                       !.blobs = SelectSeq(w.blobs, keep)]

\* dentry_add_child: the names of one index differ, the child is linked in
dentry_add_child(w, parent, child) ==
    [w EXCEPT !.dent[child].d_parent = parent]

\* for_dentry_child: the children of a dentry, by address
ChildrenOf(dent, parent) == {d \in DOMAIN dent : dent[d].d_parent = parent}

(***************************************************************************)
(* Callbacks of the capture.                                               *)
(***************************************************************************)
\* do_capture_progress: what the progress callback returns
do_capture_progress(msg, fail) ==
    IF fail = "progress" THEN WIMLIB_ERR_ABORTED_BY_PROGRESS ELSE WIMLIB_ERR_SUCCESS

\* report_capture_error: the hook lets the capture go on, or hands the code back
report_capture_error(ret, hook) ==
    IF hook = "ignore" THEN WIMLIB_ERR_SUCCESS ELSE ret

HookChoices == {"ignore", "propagate"}

\* try_exclude: negative for an excluded path, positive for an error
try_exclude(path, params, fail) ==
    IF fail = "try_exclude" THEN 1
    ELSE IF path \in params.exclude THEN -1
    ELSE 0


(***************************************************************************)
(* Scanning the attributes of one inode.  fail names the one allocation,   *)
(* library call or callback that fails during a call of the builder.       *)
(***************************************************************************)
\* the calls of the builder up to the recursion or its return
BuildFails ==
    {"none", "stream_name", "sort_key", "reparse_tag", "add_stream",
     "reparse_pread", "try_exclude", "ntfs_inode_open", "ntfs_get_ntfs_attrib",
     "inode_table_new_dentry", "ntfs_attr_get_search_ctx", "ntfs_attr_lookup",
     "get_security_descriptor", "progress"}
\* the calls of filldir, those of the builder it calls included
FilldirFails == BuildFails \cup {"insert_dos_name", "utf16le_to_tstr"}
\* the calls from the return of ntfs_readdir to the return of the builder
LeaveFails == {"none", "ntfs_readdir", "utf16le_dupz", "progress"}

\* the volume wrapper as scan_ntfs_attr finds it during the walk
WalkHeap ==
    [volume |-> [NoVolume EXCEPT !.vol = "mounted", !.refcnt = 1],
     names |-> {}, heapErr |-> FALSE]

\* set_attr_sort_key: the attribute is opened, asked for its first run and
\* closed
set_attr_sort_key(h, fail) ==
    IF fail = "sort_key" THEN h
    ELSE Closed(Opened(h, "na"), "na")

\* a read_reparse_tag that returns from the failed read without closing
read_reparse_tag_leak(h, fail) ==
    IF fail = "reparse_tag" THEN h
    ELSE IF fail = "reparse_pread" THEN Opened(h, "na")
    ELSE Closed(Opened(h, "na"), "na")

\* read_reparse_tag: the attribute is opened, its first four bytes are
\* read, and it is closed whether or not the read succeeded
read_reparse_tag(h, fail) ==
    IF fail = "reparse_tag" THEN h
    ELSE Closed(Opened(h, "na"), "na")

\* the attribute handles one call of scan_ntfs_attr opens and closes
scan_ntfs_attr_handles(h, type, data_size, name_nchars, fail) ==
    IF \/ name_nchars # 0 /\ fail \in {"stream_name", "attr_name"}
       \/ data_size = 0
       \/ fail \in {"blob", "ntfs_loc"}
    THEN h
    ELSE IF fail = "sort_key" \/ type # AT_REPARSE_POINT
            \/ reparse_data_too_short(type, data_size)
    THEN set_attr_sort_key(h, fail)
    ELSE read_reparse_tag(set_attr_sort_key(h, fail), fail)

\* what one call of scan_ntfs_attr leaves behind: r is its result, h the
\* handles afterwards; inode_add_stream attached the stream to the inode
\* and prepare_unhashed_blob put its blob on the list
ScanApply(w, ino, r, h) ==
    IF r.ret # WIMLIB_ERR_SUCCESS
    THEN [ret |-> r.ret, w |-> [w EXCEPT !.hnd = h]]
    ELSE [ret |-> r.ret,
          w |-> [w EXCEPT !.hnd = h,
                          !.ino[ino].i_streams = Append(@, r.strm),
                          !.blobs = IF IsNull(r.strm.blob) THEN @
                                    ELSE Append(@, r.strm.blob)]]

\* one attribute of the inode
ScanInto(w, ino, a, fail) ==
    ScanApply(w, ino,
              scan_ntfs_attr(WalkHeap, ino, a.type, a.data_size, a.name_nchars,
                             IF fail = "reparse_pread" THEN "reparse_tag" ELSE fail),
              scan_ntfs_attr_handles(w.hnd, a.type, a.data_size, a.name_nchars, fail))

\* while (!ntfs_attr_lookup(type, ...)) scan_ntfs_attr(...): r is the result
\* of the attribute before
RECURSIVE ScanEach(_, _, _, _)
ScanEach(r, ino, attrs, fail) ==
    IF r.ret # WIMLIB_ERR_SUCCESS \/ attrs = <<>> THEN r
    ELSE ScanEach(ScanInto(r.w, ino, Head(attrs), fail), ino, Tail(attrs), fail)

\* out_put_actx, r being what the loop ended with
ScanEnd(r, fail) ==
    [ret |-> IF r.ret # WIMLIB_ERR_SUCCESS THEN r.ret
             ELSE IF fail = "ntfs_attr_lookup" THEN WIMLIB_ERR_NTFS_3G
             ELSE WIMLIB_ERR_SUCCESS,
     w |-> [r.w EXCEPT !.hnd = Closed(@, "actx")]]

\* scan_ntfs_attrs_with_type
scan_ntfs_attrs_with_type(w, ino, type, fail) ==
    IF fail = "ntfs_attr_get_search_ctx"
    THEN [ret |-> WIMLIB_ERR_NTFS_3G, w |-> w]
    ELSE LET OfType(a) == a.type = type
         IN  ScanEnd(ScanEach([ret |-> WIMLIB_ERR_SUCCESS,
                               w |-> [w EXCEPT !.hnd = Opened(@, "actx")]],
                              ino, SelectSeq(NtfsInodes[ino].attrs, OfType), fail),
                     fail)

\* get_security_descriptor: the descriptor is read and added to the set
get_security_descriptor(w, ino, fail) ==
    IF fail = "get_security_descriptor"
    THEN [ret |-> WIMLIB_ERR_NTFS_3G, w |-> w]
    ELSE [ret |-> WIMLIB_ERR_SUCCESS, w |-> [w EXCEPT !.ino[ino].security = @ + 1]]

(***************************************************************************)
(* ntfs_3g_build_dentry_tree_recursive.  A call is described by            *)
(*   ret, root   what it returns                                           *)
(*   raised      the code it reached `out' with, before the hook           *)
(*   progress    the message handed to the progress callback               *)
(*   recursing   it stands before ntfs_3g_recurse_directory, ni is open    *)
(* and the record wlast keeps of it adds                                   *)
(*   op          "build": the builder returned; "enter": it stands before  *)
(*               the recursion; "leave": it returned after the recursion;  *)
(*               "dos", "dot", "name": filldir returned without calling it *)
(*   fail        the call that failed, hooked: the hook was asked          *)
(*   recurse_ret, kids, dos_seen, dos_names, warned (op = "leave"): what   *)
(*               ntfs_3g_recurse_directory returned, the children as it    *)
(*               left them, the DOS names delivered, the map, the inodes   *)
(*               warned about                                              *)
(*   after       (op = "leave") the kind of call that stopped the readdir  *)
(***************************************************************************)
BuildRet(w, ret, root, raised, progress, recursing) ==
    [w |-> w, ret |-> ret, root |-> root, raised |-> raised,
     progress |-> progress, recursing |-> recursing]

\* if (ni) ntfs_inode_close(ni)
CloseInode(w, ni) == IF ni THEN [w EXCEPT !.hnd = Closed(@, "ni")] ELSE w

\* an exit that hands the error to the hook without freeing the subtree
build_out_keep_tree(w, root, ni, ret, progress, hook) ==
    IF ret # WIMLIB_ERR_SUCCESS
    THEN BuildRet(CloseInode(w, ni), report_capture_error(ret, hook), 0, ret,
                  progress, FALSE)
    ELSE BuildRet(CloseInode(w, ni), ret, root, ret, progress, FALSE)

\* out: the inode is closed; a failed call frees what it built and asks
\* the hook
build_out(w, root, ni, ret, progress, hook) ==
    IF ret # WIMLIB_ERR_SUCCESS
    THEN BuildRet(free_dentry_tree(CloseInode(w, ni), root),
                  report_capture_error(ret, hook), 0, ret, progress, FALSE)
    ELSE BuildRet(CloseInode(w, ni), ret, root, ret, progress, FALSE)

\* out_progress
build_out_progress(w, root, ni, fail, hook) ==
    IF root = 0
    THEN build_out(w, root, ni, do_capture_progress(WIMLIB_SCAN_DENTRY_EXCLUDED, fail),
                   WIMLIB_SCAN_DENTRY_EXCLUDED, hook)
    ELSE build_out(w, root, ni, do_capture_progress(WIMLIB_SCAN_DENTRY_OK, fail),
                   WIMLIB_SCAN_DENTRY_OK, hook)

\* after get_security_descriptor returned sd: a directory is recursed
\* into, any other file is done
build_after_security(sd, root, ino, attributes, fail, hook) ==
    IF sd.ret # WIMLIB_ERR_SUCCESS
    THEN build_out(sd.w, root, TRUE, sd.ret, "none", hook)
    ELSE IF FILE_ATTRIBUTE_DIRECTORY \in attributes
    THEN BuildRet([sd.w EXCEPT !.ino[ino].recursed = @ + 1],
                  WIMLIB_ERR_SUCCESS, root, WIMLIB_ERR_SUCCESS, "none", TRUE)
    ELSE build_out_progress(sd.w, root, TRUE, fail, hook)

\* after the scan of the data streams returned da
build_after_data(da, root, ino, attributes, fail, hook) ==
    IF da.ret # WIMLIB_ERR_SUCCESS
    THEN build_out(da.w, root, TRUE, da.ret, "none", hook)
    ELSE build_after_security(get_security_descriptor(da.w, ino, fail),
                              root, ino, attributes, fail, hook)

\* after the scan of the reparse point stream returned rp
build_after_reparse(rp, root, ino, attributes, fail, hook) ==
    IF rp.ret # WIMLIB_ERR_SUCCESS
    THEN build_out(rp.w, root, TRUE, rp.ret, "none", hook)
    ELSE build_after_data(scan_ntfs_attrs_with_type(rp.w, ino, AT_DATA, fail),
                          root, ino, attributes, fail, hook)

\* the steps for an inode seen for the first time, from the timestamps to
\* the security descriptor
build_first_link(w, root, ino, attributes, fail, hook) ==
    build_after_reparse(
        IF FILE_ATTRIBUTE_REPARSE_POINT \in attributes
        THEN scan_ntfs_attrs_with_type(
                 [w EXCEPT !.ino[ino].i_attributes = attributes,
                           !.ino[ino].scanned = @ + 1],
                 ino, AT_REPARSE_POINT, fail)
        ELSE [ret |-> WIMLIB_ERR_SUCCESS,
              w |-> [w EXCEPT !.ino[ino].i_attributes = attributes,
                              !.ino[ino].scanned = @ + 1]],
        root, ino, attributes, fail, hook)

\* a builder that makes no difference between the first and a later link
build_every_link(w, root, ino, attributes, fail, hook) ==
    build_first_link(w, root, ino, attributes, fail, hook)

\* if (inode->i_nlink > 1) goto out_progress
build_link(w, root, ino, attributes, fail, hook) ==
    IF w.ino[ino].i_nlink > 1
    THEN build_out_progress(w, root, TRUE, fail, hook)
    ELSE build_first_link(w, root, ino, attributes, fail, hook)

\* an encrypted file that is reported as unsupported whatever the flags say
build_unsupported_lenient(w, params, fail, hook) ==
    build_out(w, 0, TRUE, do_capture_progress(WIMLIB_SCAN_DENTRY_UNSUPPORTED, fail),
              WIMLIB_SCAN_DENTRY_UNSUPPORTED, hook)

\* if (attributes & FILE_ATTRIBUTE_ENCRYPTED): an error with
\* WIMLIB_ADD_FLAG_NO_UNSUPPORTED_EXCLUDE, else progress "unsupported"
build_unsupported(w, params, fail, hook) ==
    IF params.no_unsupported_exclude
    THEN build_out(w, 0, TRUE, WIMLIB_ERR_UNSUPPORTED_FILE, "none", hook)
    ELSE build_out(w, 0, TRUE, do_capture_progress(WIMLIB_SCAN_DENTRY_UNSUPPORTED, fail),
                   WIMLIB_SCAN_DENTRY_UNSUPPORTED, hook)

\* after inode_table_new_dentry returned nd
build_new_dentry(nd, mref, attributes, name_type, fail, hook) ==
    IF nd.ret # WIMLIB_ERR_SUCCESS
    THEN build_out(nd.w, 0, TRUE, nd.ret, "none", hook)
    ELSE build_link([nd.w EXCEPT !.dent[nd.root].is_win32_name =
                        (name_type \cap FILE_NAME_WIN32 # {})],
                    nd.root, mref, attributes, fail, hook)

\* after ntfs_inode_open succeeded: w has the inode open
build_opened(w, params, mref, name, name_type, fail, hook) ==
    IF fail = "ntfs_get_ntfs_attrib"
    THEN build_out(w, 0, TRUE, WIMLIB_ERR_NTFS_3G, "none", hook)
    ELSE IF FILE_ATTRIBUTE_ENCRYPTED \in NtfsInodes[mref].attributes
    THEN build_unsupported(w, params, fail, hook)
    ELSE build_new_dentry(inode_table_new_dentry(w, name, mref, fail), mref,
                          NtfsInodes[mref].attributes, name_type, fail, hook)

\* from the entry of the builder to its return or to the recursion
build_enter(w, params, mref, path, name, name_type, fail, hook) ==
    IF try_exclude(path, params, fail) < 0
    THEN build_out_progress(w, 0, FALSE, fail, hook)
    ELSE IF try_exclude(path, params, fail) > 0
    THEN build_out(w, 0, FALSE, WIMLIB_ERR_NOMEM, "none", hook)
    ELSE IF fail = "ntfs_inode_open"
    THEN build_out(w, 0, FALSE, WIMLIB_ERR_NTFS_3G, "none", hook)
    ELSE build_opened([w EXCEPT !.hnd = Opened(@, "ni")], params, mref, name,
                      name_type, fail, hook)

\* after ntfs_3g_recurse_directory returned ret
build_leave(w, root, ret, fail, hook) ==
    IF ret # WIMLIB_ERR_SUCCESS THEN build_out(w, root, TRUE, ret, "none", hook)
    ELSE build_out_progress(w, root, TRUE, fail, hook)


(***************************************************************************)
(* The DOS name map of one directory: NTFS inode number -> DOS name.       *)
(***************************************************************************)
\* an insert that lets a later DOS name replace the one already there
insert_dos_name_last(map, dos_name, ntfs_ino, fail) ==
    IF fail = "insert_dos_name"
    THEN [ret |-> WIMLIB_ERR_NOMEM, map |-> map, warning |-> "none"]
    ELSE [ret |-> WIMLIB_ERR_SUCCESS,
          map |-> (ntfs_ino :> dos_name) @@ map,
          warning |-> IF ntfs_ino \in DOMAIN map THEN "multiple DOS names" ELSE "none"]

\* insert_dos_name: a node whose inode number is already in the tree is
\* freed again, with a warning
insert_dos_name(map, dos_name, ntfs_ino, fail) ==
    IF fail = "insert_dos_name"
    THEN [ret |-> WIMLIB_ERR_NOMEM, map |-> map, warning |-> "none"]
    ELSE IF ntfs_ino \in DOMAIN map
    THEN [ret |-> WIMLIB_ERR_SUCCESS, map |-> map, warning |-> "multiple DOS names"]
    ELSE [ret |-> WIMLIB_ERR_SUCCESS, map |-> (ntfs_ino :> dos_name) @@ map,
          warning |-> "none"]

\* lookup_dos_name
lookup_dos_name(map, ntfs_ino) ==
    IF ntfs_ino \in DOMAIN map THEN [dos_name |-> map[ntfs_ino]] ELSE NULL

\* set_dentry_dos_name for one child: the dentry afterwards
set_dentry_dos_name(dentry, map) ==
    IF dentry.is_win32_name /\ ~IsNull(lookup_dos_name(map, dentry.d_inode))
    THEN [dentry EXCEPT !.d_short_name = lookup_dos_name(map, dentry.d_inode).dos_name]
    ELSE dentry

\* the loop over the children after a readdir that returned 0: the first
\* utf16le_dupz that fails ends it with WIMLIB_ERR_NOMEM (the tree is then
\* freed by the caller before anything looks at it)
SetDosNames(w, parent, map, fail) ==
    LET kids == ChildrenOf(w.dent, parent)
        named == {d \in kids : w.dent[d].is_win32_name /\ w.dent[d].d_inode \in DOMAIN map}
    IN  IF fail = "utf16le_dupz" /\ named # {}
        THEN [ret |-> WIMLIB_ERR_NOMEM, w |-> w, warned |-> {}]
        ELSE [ret |-> WIMLIB_ERR_SUCCESS,
              w |-> [w EXCEPT !.dent = [d \in DOMAIN w.dent |->
                        IF d \in kids THEN set_dentry_dos_name(w.dent[d], map)
                        ELSE w.dent[d]]],
              warned |-> {w.dent[d].d_inode :
                             d \in {k \in kids : w.dent[k].is_win32_name} \ named}]

(***************************************************************************)
(* The walk as a state machine.  wstack holds one frame per directory      *)
(* whose ntfs_readdir is running:                                          *)
(*   root, mref, path  the directory's dentry, MFT number and path         *)
(*   todo              the index entries ntfs_readdir has yet to deliver   *)
(*   dos_name_map, ctx_ret   the fields of struct readdir_ctx              *)
(*   dos_seen          the DOS names delivered so far, in order            *)
(***************************************************************************)
NewFrame(vol, root, mref, path) ==
    [root |-> root, mref |-> mref, path |-> path, todo |-> IndexOf(vol, mref),
     dos_name_map |-> <<>>, ctx_ret |-> WIMLIB_ERR_SUCCESS, dos_seen |-> <<>>]

Top == wstack[Len(wstack)]
Below == SubSeq(wstack, 1, Len(wstack) - 1)

ChildPath(path, name) ==
    IF path = "/" THEN path \o name ELSE path \o "/" \o name

\* the children of a directory as its builder leaves them
KidsOf(dent, parent) ==
    {[d_name |-> dent[d].d_name, d_inode |-> dent[d].d_inode,
      is_win32_name |-> dent[d].is_win32_name,
      d_short_name |-> dent[d].d_short_name] : d \in ChildrenOf(dent, parent)}

NoCall ==
    [op |-> "none", path |-> "", mref |-> 0, name_type |-> {}, fail |-> "none",
     raised |-> "none",
     ret |-> "none", root |-> 0, progress |-> "none", hooked |-> FALSE,
     warning |-> "none", recurse_ret |-> "none", kids |-> {}, dos_seen |-> <<>>,
     dos_names |-> <<>>, warned |-> {}, after |-> "none"]

\* the record of one return of the builder; fail is the failure the call
\* was run with if it raised an error, "none" otherwise
CallOf(op, path, e, r, fail) ==
    [NoCall EXCEPT !.op = op, !.path = path, !.mref = e.mref,
                   !.fail = IF r.raised # WIMLIB_ERR_SUCCESS THEN fail ELSE "none",
                   !.name_type = e.name_type, !.raised = r.raised, !.ret = r.ret,
                   !.root = r.root, !.progress = r.progress,
                   !.hooked = (r.raised # WIMLIB_ERR_SUCCESS)]

SetWalk(w) ==
    /\ wdent' = w.dent
    /\ wino' = w.ino
    /\ wblobs' = w.blobs
    /\ whnd' = w.hnd

InitWalk ==
    /\ VolumeOff
    /\ ThreadsOff
    /\ MetaOff
    /\ ReadOff
    /\ SortOff
    /\ wvol \in Captures
    /\ wstack = <<>>
    /\ wdent = <<>>
    /\ wino = <<>>
    /\ wblobs = <<>>
    /\ whnd = NoHandles
    /\ wlast = NoCall
    /\ wres = [pc |-> "start", ret |-> "none", root |-> 0]

\* ntfs_3g_build_dentry_tree calls the builder for the root directory
BuildRoot(fail, hook) ==
    /\ wres.pc = "start"
    /\ \E r \in {build_enter(WState, wvol, FILE_root, "/", "", FILE_NAME_POSIX,
                             fail, hook)} :
          /\ SetWalk(r.w)
          /\ wlast' = CallOf(IF r.recursing THEN "enter" ELSE "build", "/",
                             DirEntry("", FILE_NAME_POSIX, FILE_root), r, fail)
          /\ IF r.recursing
             THEN /\ wstack' = <<NewFrame(wvol, r.root, FILE_root, "/")>>
                  /\ wres' = [wres EXCEPT !.pc = "walking"]
             ELSE /\ wstack' = <<>>
                  /\ wres' = [pc |-> "done", ret |-> r.ret, root |-> r.root]
    /\ UNCHANGED wvol

\* ntfs_readdir delivers the next entry of the directory on top to filldir
Filldir(fail, hook) ==
    /\ wres.pc = "walking"
    /\ Top.todo # <<>>
    /\ Top.ctx_ret = WIMLIB_ERR_SUCCESS
    /\ LET e == Head(Top.todo)
           f == [Top EXCEPT !.todo = Tail(@),
                            !.dos_seen = IF e.name_type \cap FILE_NAME_DOS # {}
                                         THEN Append(@, [ino |-> e.mref, name |-> e.name])
                                         ELSE @]
           ins == IF e.name_type \cap FILE_NAME_DOS # {}
                  THEN insert_dos_name(f.dos_name_map, e.name, e.mref, fail)
                  ELSE [ret |-> WIMLIB_ERR_SUCCESS, map |-> f.dos_name_map,
                        warning |-> "none"]
           f1 == [f EXCEPT !.dos_name_map = ins.map]
           path == ChildPath(f.path, e.name)
       IN  IF ins.ret # WIMLIB_ERR_SUCCESS \/ e.name_type = FILE_NAME_DOS
           THEN /\ wstack' = Below \o <<[f1 EXCEPT !.ctx_ret = ins.ret]>>
                /\ wlast' = [NoCall EXCEPT !.op = "dos", !.path = path,
                                           !.mref = e.mref, !.name_type = e.name_type,
                                           !.raised = ins.ret, !.ret = ins.ret,
                                           !.fail = IF ins.ret # WIMLIB_ERR_SUCCESS
                                                    THEN fail ELSE "none",
                                           !.warning = ins.warning]
                /\ UNCHANGED <<wdent, wino, wblobs, whnd, wres>>
           ELSE IF e.name \in {".", ".."}
           THEN /\ wstack' = Below \o <<f1>>
                /\ wlast' = [NoCall EXCEPT !.op = "dot", !.path = path,
                                           !.mref = e.mref, !.name_type = e.name_type,
                                           !.raised = WIMLIB_ERR_SUCCESS,
                                           !.ret = WIMLIB_ERR_SUCCESS]
                /\ UNCHANGED <<wdent, wino, wblobs, whnd, wres>>
           ELSE IF fail = "utf16le_to_tstr"
           THEN /\ wstack' = Below \o <<[f1 EXCEPT !.ctx_ret = WIMLIB_ERR_INVALID_UTF16_STRING]>>
                /\ wlast' = [NoCall EXCEPT !.op = "name", !.path = path,
                                           !.mref = e.mref, !.name_type = e.name_type,
                                           !.raised = WIMLIB_ERR_INVALID_UTF16_STRING,
                                           !.ret = WIMLIB_ERR_INVALID_UTF16_STRING,
                                           !.fail = fail,
                                           !.warning = ins.warning]
                /\ UNCHANGED <<wdent, wino, wblobs, whnd, wres>>
           ELSE \E r \in {build_enter(WState, wvol, e.mref, path, e.name,
                                      e.name_type, fail, hook)} :
                  IF r.recursing
                  THEN /\ SetWalk(r.w)
                       /\ wstack' = Below \o <<f1, NewFrame(wvol, r.root, e.mref, path)>>
                       /\ wlast' = [CallOf("enter", path, e, r, fail) EXCEPT
                                       !.warning = ins.warning]
                       /\ UNCHANGED wres
                  ELSE /\ SetWalk(IF r.root # 0
                                  THEN dentry_add_child(r.w, f.root, r.root)
                                  ELSE r.w)
                       /\ wstack' = Below \o <<[f1 EXCEPT !.ctx_ret = r.ret]>>
                       /\ wlast' = [CallOf("build", path, e, r, fail) EXCEPT
                                       !.warning = ins.warning]
                       /\ UNCHANGED wres
    /\ UNCHANGED wvol

\* ntfs_readdir of the directory on top returns: the DOS names are set, the
\* builder of the directory runs to its end, and its caller (filldir of the
\* parent, or ntfs_3g_build_dentry_tree) takes the result
LeaveDir(fail, hook) ==
    /\ wres.pc = "walking"
    /\ \/ Top.todo = <<>>
       \/ Top.ctx_ret # WIMLIB_ERR_SUCCESS
       \/ fail = "ntfs_readdir"
    /\ LET f == Top
           rret == IF f.ctx_ret # WIMLIB_ERR_SUCCESS THEN f.ctx_ret
                   ELSE IF fail = "ntfs_readdir" THEN WIMLIB_ERR_NTFS_3G
                   ELSE WIMLIB_ERR_SUCCESS
       IN  \E sd \in {IF rret # WIMLIB_ERR_SUCCESS
                       THEN [ret |-> rret, w |-> WState, warned |-> {}]
                       ELSE SetDosNames(WState, f.root, f.dos_name_map, fail)} :
           \E kids \in {KidsOf(sd.w.dent, f.root)} :
           \E r \in {build_leave(sd.w, f.root, sd.ret, fail, hook)} :
              /\ wlast' = [CallOf("leave", f.path, DirEntry("", {}, f.mref), r,
                                  IF f.ctx_ret = WIMLIB_ERR_SUCCESS
                                  THEN fail ELSE "none") EXCEPT
                              !.recurse_ret = sd.ret, !.kids = kids,
                              !.after = IF f.ctx_ret # WIMLIB_ERR_SUCCESS
                                        THEN wlast.op ELSE "none",
                              !.dos_seen = f.dos_seen,
                              !.dos_names = f.dos_name_map, !.warned = sd.warned]
              /\ IF Len(wstack) = 1
                 THEN /\ SetWalk(r.w)
                      /\ wstack' = <<>>
                      /\ wres' = [pc |-> "done", ret |-> r.ret, root |-> r.root]
                 ELSE LET parent == wstack[Len(wstack) - 1]
                      IN  /\ SetWalk(IF r.root # 0
                                     THEN dentry_add_child(r.w, parent.root, r.root)
                                     ELSE r.w)
                          /\ wstack' = SubSeq(wstack, 1, Len(wstack) - 2)
                                       \o <<[parent EXCEPT !.ctx_ret = r.ret]>>
                          /\ UNCHANGED wres
    /\ UNCHANGED wvol

NextWalk ==
    \/ \E f \in BuildFails, h \in HookChoices :
          BuildRoot(f, h) /\ UNCHANGED <<volVars, thrVars, metaVars, rd, sk>>
    \/ \E f \in FilldirFails, h \in HookChoices :
          Filldir(f, h) /\ UNCHANGED <<volVars, thrVars, metaVars, rd, sk>>
    \/ \E f \in LeaveFails, h \in HookChoices :
          LeaveDir(f, h) /\ UNCHANGED <<volVars, thrVars, metaVars, rd, sk>>

SpecWalk == InitWalk /\ [][NextWalk]_vars


(***************************************************************************)
(* Properties of the walk.                                                 *)
(***************************************************************************)
\* the dentries of the tree: those below the directories being read and,
\* once the capture has returned, below its root
TreeRoots ==
    {wstack[k].root : k \in 1 .. Len(wstack)}
    \cup (IF wres.pc = "done" /\ wres.root # 0 THEN {wres.root} ELSE {})
TreeDentries ==
    {d \in DOMAIN wdent : \E r \in TreeRoots : IsUnder(wdent, d, r)}

\* C11: in every state during and after the capture, also after a failed
\* or excluded subtree was torn down and the hook let the walk go on, the
\* link count of every inode is the number of dentries of the tree that
\* refer to it.
C11_LinkCount ==
    /\ \A i \in DOMAIN wino :
          wino[i].i_nlink = Cardinality({d \in TreeDentries : wdent[d].d_inode = i})
    /\ \A d \in TreeDentries : wdent[d].d_inode \in DOMAIN wino

\* the subdirectory, holding a second link of file 64, has just been torn
\* down, the hook let the walk go on, and the file is left with one link
C11_Witness ==
    /\ wres.pc = "walking"
    /\ wlast.op = "leave"
    /\ wlast.path = "/d"
    /\ wlast.raised # WIMLIB_ERR_SUCCESS
    /\ wlast.ret = WIMLIB_ERR_SUCCESS
    /\ \E k \in wlast.kids : k.d_inode = 64
    /\ 64 \in DOMAIN wino
    /\ wino[64].i_nlink = 1


EncryptedCall ==
    /\ wlast.op = "build"
    /\ wlast.mref \in DOMAIN NtfsInodes
    /\ FILE_ATTRIBUTE_ENCRYPTED \in NtfsInodes[wlast.mref].attributes

\* C13: an entry whose file has FILE_ATTRIBUTE_ENCRYPTED gets no dentry and
\* no inode; with WIMLIB_ADD_FLAG_NO_UNSUPPORTED_EXCLUDE its scan fails with
\* WIMLIB_ERR_UNSUPPORTED_FILE (the code handed to the hook), without it
\* progress "unsupported" is reported, the dentry returned is null and,
\* the callback returning 0, readdir goes on with the next entry.
C13_Encrypted ==
    EncryptedCall =>
        /\ wlast.root = 0
        /\ wlast.mref \notin DOMAIN wino
        /\ \A d \in DOMAIN wdent : wdent[d].d_inode # wlast.mref
        /\ (/\ wlast.fail \notin {"try_exclude", "ntfs_inode_open", "ntfs_get_ntfs_attrib"}
            /\ wlast.path \notin wvol.exclude) =>
              IF wvol.no_unsupported_exclude
              THEN /\ wlast.raised = WIMLIB_ERR_UNSUPPORTED_FILE
                   /\ wlast.hooked
                   /\ wlast.progress = "none"
                   /\ wlast.ret \in {WIMLIB_ERR_UNSUPPORTED_FILE, WIMLIB_ERR_SUCCESS}
                   /\ Top.ctx_ret = wlast.ret
              ELSE /\ wlast.progress = WIMLIB_SCAN_DENTRY_UNSUPPORTED
                   /\ wlast.fail # "progress" =>
                         /\ wlast.raised = WIMLIB_ERR_SUCCESS
                         /\ wlast.ret = WIMLIB_ERR_SUCCESS
                         /\ Top.ctx_ret = WIMLIB_ERR_SUCCESS

\* the strict flag is set and the encrypted file has just been refused
C13_Witness ==
    /\ EncryptedCall
    /\ wvol.no_unsupported_exclude
    /\ wlast.fail = "none"
    /\ wlast.raised = WIMLIB_ERR_UNSUPPORTED_FILE
    /\ wlast.ret = WIMLIB_ERR_UNSUPPORTED_FILE
    /\ wlast.root = 0
    /\ Top.ctx_ret = WIMLIB_ERR_UNSUPPORTED_FILE


(***************************************************************************)
(* The capture and the later reading of a blob, side by side: a behaviour  *)
(* is either a walk or one call of read_ntfs_attribute_prefix.             *)
(***************************************************************************)
InitCapture == InitWalk \/ InitPrefix

NextCapture == NextWalk \/ NextPrefix

SpecCapture == InitCapture /\ [][NextCapture]_vars

\* C15: every inode opened by the builder or by read_ntfs_attribute_prefix
\* and every attribute and search context opened while scanning is closed
\* once on every way out: between two calls the only open handles are the
\* inodes of the directories being read, nothing is closed twice, and
\* nothing is open when the capture or the read has returned.
C15_Handles ==
    /\ ~whnd.closed_twice
    /\ whnd.na = 0
    /\ whnd.actx = 0
    /\ whnd.ni = Len(wstack)
    /\ wres.pc = "done" => whnd = NoHandles
    /\ rd.pc # "off" =>
          /\ ~rd.h.closed_twice
          /\ rd.h.actx = 0
          /\ rd.pc = "call" => rd.h = NoHandles
          /\ rd.pc = "loop" => rd.h.ni = 1 /\ rd.h.na = 1
          /\ rd.pc = "done" => rd.h = NoHandles

\* reading the reparse tag of file 66 has just failed inside a directory
\* that is still being read: the attribute is closed, the file's inode too
C15_Witness ==
    /\ wres.pc = "walking"
    /\ wlast.op = "build"
    /\ wlast.mref = 66
    /\ wlast.fail = "reparse_pread"
    /\ wlast.raised = WIMLIB_ERR_NTFS_3G
    /\ whnd.na = 0
    /\ whnd.actx = 0
    /\ whnd.ni = Len(wstack)
    /\ ~whnd.closed_twice


\* the builder has just returned (with or without recursion)
BuilderReturned == wlast.op \in {"build", "leave"}

\* C16: every nonzero result of scanning an entry, a nonzero return of a
\* progress callback included, goes to the capture-error hook for that
\* entry.  If the hook hands it back, the entry's subtree is freed, the
\* entry is not attached, readdir of the parent stops at once and the code
\* travels up to ntfs_3g_build_dentry_tree, which returns it with a null
\* root; if the hook ignores it, the entry is absent and the walk goes on
\* with the next sibling.  The builder never returns a nonzero code
\* together with a dentry.
C16_FailurePolicy ==
    /\ BuilderReturned =>
          /\ wlast.raised # WIMLIB_ERR_SUCCESS => wlast.hooked
          /\ wlast.ret # WIMLIB_ERR_SUCCESS =>
                /\ wlast.root = 0
                /\ wlast.ret = wlast.raised
                /\ wstack # <<>> => Top.ctx_ret = wlast.ret
                /\ wstack = <<>> => wres.ret = wlast.ret /\ wres.root = 0
          /\ wlast.raised # WIMLIB_ERR_SUCCESS /\ wlast.ret = WIMLIB_ERR_SUCCESS =>
                /\ wlast.root = 0
                /\ wstack # <<>> => Top.ctx_ret = WIMLIB_ERR_SUCCESS
    \* a code the hook handed back for an entry of this directory travels up
    /\ wlast.op = "leave" /\ wlast.after \in {"build", "leave"} =>
          /\ wlast.ret = wlast.recurse_ret
          /\ wlast.root = 0
    /\ wres.pc = "done" /\ wres.ret # WIMLIB_ERR_SUCCESS => wres.root = 0


\* the first DOS name delivered for inode i among the names in seen
FirstDosName(seen, i) ==
    seen[CHOOSE j \in 1 .. Len(seen) :
            seen[j].ino = i /\ \A k \in 1 .. j - 1 : seen[k].ino # i].name

DosDelivered(seen, i) == \E j \in 1 .. Len(seen) : seen[j].ino = i

\* names that some index delivers as DOS-only entries
DosOnlyNames ==
    {RootIndex[k].name : k \in {j \in 1 .. Len(RootIndex) :
                                   RootIndex[j].name_type = FILE_NAME_DOS}}
    \cup {SubdirIndex[k].name : k \in {j \in 1 .. Len(SubdirIndex) :
                                          SubdirIndex[j].name_type = FILE_NAME_DOS}}

\* C18: after ntfs_3g_recurse_directory succeeded for a directory, a child
\* has a short name if and only if it is marked is_win32_name and a DOS name
\* entry (DOS-only or Win32+DOS) with its inode number was delivered during
\* the readdir of that directory; the short name is then the first DOS name
\* delivered for the inode, a later one being discarded with a warning and
\* without failing the scan; a Win32-named child without DOS entry keeps an
\* empty short name and the directory is not given up; a DOS-only entry
\* never gets a dentry of its own.
C18_DosNames ==
    /\ wlast.op = "leave" /\ wlast.recurse_ret = WIMLIB_ERR_SUCCESS =>
          \A k \in wlast.kids :
              /\ k.d_short_name # "" <=>
                    k.is_win32_name /\ DosDelivered(wlast.dos_seen, k.d_inode)
              /\ k.d_short_name # "" =>
                    k.d_short_name = FirstDosName(wlast.dos_seen, k.d_inode)
              /\ k.is_win32_name /\ ~DosDelivered(wlast.dos_seen, k.d_inode) =>
                    k.d_inode \in wlast.warned
    /\ wlast.op = "leave" /\ wlast.after = "none"
          /\ wlast.fail \notin {"ntfs_readdir", "utf16le_dupz"} =>
          wlast.recurse_ret = WIMLIB_ERR_SUCCESS
    /\ wlast.op \in {"dos", "build", "enter"} /\ wlast.name_type \cap FILE_NAME_DOS # {}
          /\ wlast.fail # "insert_dos_name" =>
          LET seen == Top.dos_seen
              here == IF wlast.op = "enter" THEN wstack[Len(wstack) - 1].dos_seen
                      ELSE seen
              before == SubSeq(here, 1, Len(here) - 1)
          IN  /\ wlast.warning = "multiple DOS names" <=>
                    DosDelivered(before, wlast.mref)
              /\ wlast.op = "dos" => wlast.ret = WIMLIB_ERR_SUCCESS
    /\ wlast.op = "dos" => wlast.root = 0 /\ ~wlast.hooked
    /\ \A d \in DOMAIN wdent : wdent[d].d_name \notin DosOnlyNames

\* the root directory delivered two DOS names for file 64 and one Win32
\* name: the child "b" carries the first of the two
C18_Witness ==
    /\ wlast.op = "leave"
    /\ wlast.path = "/"
    /\ wlast.recurse_ret = WIMLIB_ERR_SUCCESS
    /\ wlast.ret = WIMLIB_ERR_SUCCESS
    /\ wlast.dos_seen = <<[ino |-> 64, name |-> "A~1"], [ino |-> 64, name |-> "B~1"]>>
    /\ [d_name |-> "b", d_inode |-> 64, is_win32_name |-> TRUE,
        d_short_name |-> "A~1"] \in wlast.kids

\* C22: after ntfs_3g_recurse_directory succeeded for a directory, no two
\* of its children carry the same non-empty short name, whatever sequence
\* of names the readdir delivered, two Win32 names of one inode with one
\* DOS name included.
C22_ShortNamesUnique ==
    wlast.op = "leave" /\ wlast.recurse_ret = WIMLIB_ERR_SUCCESS =>
        \A k1 \in wlast.kids, k2 \in wlast.kids :
            k1 # k2 /\ k1.d_short_name # "" => k1.d_short_name # k2.d_short_name

(***************************************************************************)
(* The sort key of a blob located in an NTFS volume and the comparison of  *)
(* two locations: set_attr_sort_key and cmp_ntfs_locations.                *)
(***************************************************************************)

\* how many blob descriptors the scanner makes
MaxBlobs == 3

\* the marker in the lcn field of a runlist element that is a hole; the
\* markers of the other runs that are no allocated extents lie below it
LCN_HOLE == -1

\* a u64, as four 16-bit limbs from the most significant down
Zero64 == <<0, 0, 0, 0>>

\* the conversion of the s64 lcn to the u64 sort_key: the value itself, or
\* its two's complement when it is negative
U64OfS64(n) ==
    IF n >= 0 THEN <<0, 0, n \div Limb, n % Limb>>
    ELSE <<Limb - 1, Limb - 1, (Limb - 1) - ((-n - 1) \div Limb),
           (Limb - 1) - ((-n - 1) % Limb)>>

\* n1 < n2 for two u64
Lt64(n1, n2) ==
    \E k \in 1..4 : /\ n1[k] < n2[k]
                    /\ \A j \in 1..(k - 1) : n1[j] = n2[j]

\* cmp_u64
cmp_u64(n1, n2) == IF Lt64(n1, n2) THEN -1 ELSE IF Lt64(n2, n1) THEN 1 ELSE 0

\* cmp_ntfs_locations
cmp_ntfs_locations(loc1, loc2) == cmp_u64(loc1.sort_key, loc2.sort_key)

\* what ntfs_attr_find_vcn(na, 0) hands back: no element (a resident
\* attribute, or a failed lookup), or the element of the first run with its
\* lcn, a signed 64-bit field of which the code looks at nothing but
\* whether it is LCN_HOLE
NoRun == [found |-> FALSE]
Run(lcn) == [found |-> TRUE, lcn |-> lcn]
Lcns == {LCN_HOLE, LCN_HOLE - 1, 0, 5, 70000}
FirstRuns == {NoRun} \cup {Run(n) : n \in Lcns}

\* the attributes the scanner meets: whether open_ntfs_attr succeeds, and
\* the first run
SortAttrs == {[open |-> o, rl |-> r] : o \in BOOLEAN, r \in FirstRuns}

\* the value set_attr_sort_key stores in loc->sort_key
loc_sort_key(rl) ==
    IF rl.found /\ rl.lcn # LCN_HOLE THEN U64OfS64(rl.lcn) ELSE Zero64

InitSort ==
    /\ VolumeOff
    /\ ThreadsOff
    /\ MetaOff
    /\ ReadOff
    /\ WalkOff
    /\ \E n \in 1..MaxBlobs :
       \E a \in [1..n -> SortAttrs] :
          sk = [pc |-> "scan", attrs |-> a, blobs |-> <<>>, next |-> 1,
                cmp |-> <<>>]

\* scan_ntfs_attr on the next attribute with data: set_attr_sort_key fails
\* when the attribute cannot be opened and no descriptor is kept; otherwise
\* the descriptor gets its key
SetSortKey ==
    /\ sk.pc = "scan"
    /\ sk.next \in DOMAIN sk.attrs
    /\ sk' = [sk EXCEPT
                !.next = @ + 1,
                !.blobs = IF sk.attrs[sk.next].open
                          THEN Append(@, [attr |-> sk.next,
                                          sort_key |-> loc_sort_key(sk.attrs[sk.next].rl)])
                          ELSE @]
    /\ UNCHANGED <<volVars, thrVars, metaVars, rd, walkVars>>

\* the scan is over
ScanDone ==
    /\ sk.pc = "scan"
    /\ sk.next \notin DOMAIN sk.attrs
    /\ sk' = [sk EXCEPT !.pc = "sort"]
    /\ UNCHANGED <<volVars, thrVars, metaVars, rd, walkVars>>

\* the reader compares two of the descriptors
CmpLocations ==
    /\ sk.pc = "sort"
    /\ \E i \in DOMAIN sk.blobs, j \in DOMAIN sk.blobs :
          sk' = [sk EXCEPT !.cmp = <<i, j, cmp_ntfs_locations(sk.blobs[i], sk.blobs[j])>>]
    /\ UNCHANGED <<volVars, thrVars, metaVars, rd, walkVars>>

NextSort == SetSortKey \/ ScanDone \/ CmpLocations

SpecSort == InitSort /\ [][NextSort]_vars

\* the first run of the attribute a descriptor was made for
RunOf(b) == sk.attrs[b.attr].rl

\* the first run is an allocated extent
Allocated(rl) == rl.found /\ rl.lcn >= 0

\* the comparison looks at the sort keys only, and is antisymmetric and
\* transitive over the descriptors of the capture
CmpIsOrder ==
    /\ \A a \in DOMAIN sk.blobs, b \in DOMAIN sk.blobs :
          /\ cmp_ntfs_locations(sk.blobs[a], sk.blobs[b])
               = -cmp_ntfs_locations(sk.blobs[b], sk.blobs[a])
          /\ (sk.blobs[a].sort_key = sk.blobs[b].sort_key)
               = (cmp_ntfs_locations(sk.blobs[a], sk.blobs[b]) = 0)
          /\ \A c \in DOMAIN sk.blobs :
                cmp_ntfs_locations(sk.blobs[a], sk.blobs[b]) <= 0
                /\ cmp_ntfs_locations(sk.blobs[b], sk.blobs[c]) <= 0
                => cmp_ntfs_locations(sk.blobs[a], sk.blobs[c]) <= 0
    /\ sk.cmp # <<>> =>
          /\ sk.cmp[3] = cmp_ntfs_locations(sk.blobs[sk.cmp[1]], sk.blobs[sk.cmp[2]])
          /\ (sk.cmp[3] < 0) = Lt64(sk.blobs[sk.cmp[1]].sort_key,
                                    sk.blobs[sk.cmp[2]].sort_key)
          /\ (sk.cmp[3] > 0) = Lt64(sk.blobs[sk.cmp[2]].sort_key,
                                    sk.blobs[sk.cmp[1]].sort_key)

SortKeyAsCoded ==
    sk.pc # "off" =>
        /\ \A k \in DOMAIN sk.blobs :
              /\ Allocated(RunOf(sk.blobs[k])) =>
                    sk.blobs[k].sort_key = U64OfS64(RunOf(sk.blobs[k]).lcn)
              /\ (~RunOf(sk.blobs[k]).found \/ RunOf(sk.blobs[k]).lcn = LCN_HOLE) =>
                    sk.blobs[k].sort_key = Zero64
              /\ (RunOf(sk.blobs[k]).found /\ RunOf(sk.blobs[k]).lcn < LCN_HOLE) =>
                    /\ sk.blobs[k].sort_key # Zero64
                    /\ \A j \in DOMAIN sk.blobs :
                          Allocated(RunOf(sk.blobs[j])) =>
                             cmp_ntfs_locations(sk.blobs[j], sk.blobs[k]) < 0
        /\ CmpIsOrder

====
